---- MODULE Spec2Model ----
(***************************************************************************)
(* A model of the link-agents skills subsystem (import, update, storage,  *)
(* catalog) and of the Claude Code transcript writer.                      *)
(*                                                                         *)
(* The module holds several specifications over one set of variables, one  *)
(* per part of the program; the actions of a part leave the variables of   *)
(* the other parts unchanged:                                              *)
(*   SpecSkills   import, update and delete of skills in a workspace       *)
(*   SpecFetch    one call of fetchWithRetry, request by request           *)
(*   SpecCatalog  getSkillsCatalog and its cache file                      *)
(*   SpecWriter   ClaudeCodeWriter.exportSession and the files it writes   *)
(*   SpecStore    the skills storage (load, edit, delete) and the update   *)
(*                checks, on skill directories written by hand             *)
(*   SpecCrash    exportSession when the process may exit in mid-call      *)
(*   SpecReinstall  one repository imported, deleted and updated           *)
(*   SpecRemote   git imports with a branch argument and the update check  *)
(*   SpecRace     two git imports whose calls overlap                      *)
(*   SpecReader   ClaudeCodeSessionReader.listSessions                     *)
(*   SpecConcurrent  two calls of exportSession for one session that       *)
(*                interleave at their await points                         *)
(*   SpecWatcher  ClaudeCodeSessionWatcher: change events and debounce     *)
(*   SpecWatcherLive  the same, with timers that fire and time that passes *)
(*   SpecHistoryWatch  the watcher's reading of history.jsonl              *)
(*                                                                         *)
(* Conventions.  An optional value is a sequence of length 0 or 1         *)
(* (None / Some(x)).  A name, a slug or a path component is a sequence of  *)
(* one-character strings, so that `${baseSlug}-${counter}` is sequence     *)
(* concatenation and "f-1" as a folder name and "f" with the conflict      *)
(* suffix 1 are the same slug, as they are on disk.                        *)
(***************************************************************************)
EXTENDS Integers, Sequences, FiniteSets, TLC

VARIABLES
    skills,     \* {workspaceRoot}/skills: slug -> directory contents
    temps,      \* scratch directories (os.tmpdir()/skill-import-*) that exist
    lastOp,     \* the last skills operation: its result, the state before it, and
                \* (when it succeeded) its input
    ops         \* how many skills operations have run

VARIABLES
    fetch       \* the running call of fetchWithRetry: where it is, its attempt
                \* number, the answers it got and the waits it made

VARIABLES
    cache,      \* ~/.link-agents/skills-catalog.json
    now,        \* Date.now()
    lastGet     \* the last call of getSkillsCatalog: its arguments, the cache
                \* before it, what it requested and what it returned

VARIABLES
    transcripts,    \* projects/<dir>/<sessionId>.jsonl: <<dir, id>> -> lines
    indexes,        \* projects/<dir>/sessions-index.json: dir -> entries
    history,        \* history.jsonl
    exp,            \* the running call of exportSession: its position and locals
    wclock,         \* writer steps begun; also the writer's Date.now()
    lastExport,     \* what the last completed exportSession did
    prevExport      \* what the completed exportSession before that did

VARIABLES
    checkAll,   \* the running call of checkAllSkillUpdates: the skills it was given,
                \* the checks still pending and the map filled so far
    running,    \* the imports in flight when calls overlap: each one's position and
                \* locals
    listed      \* the last call of listSessions: the files it read and its result

VARIABLES
    pair,       \* two calls of exportSession for one session that run at the same
                \* time: each one's position and locals
    watch,      \* the ClaudeCodeSessionWatcher object: its fs watchers, callbacks,
                \* debounceTimers and lastHistorySize
    timerq,     \* the timers of the runtime that are set and not cleared
    wtime,      \* the watcher's clock, in units of 250 ms
    hfile,      \* history.jsonl as the watcher sees it: its bytes, and whether a
                \* change event is waiting to be delivered
    wlog        \* what the watcher did: notifications, delivered events, entries read

skillVars == <<skills, temps, lastOp, ops>>
fetchVars == <<fetch>>
catalogVars == <<cache, now, lastGet>>
writerVars == <<transcripts, indexes, history, exp, wclock, lastExport, prevExport>>
liveVars == <<pair, watch, timerq, wtime, hfile, wlog>>
callVars == <<checkAll, running, listed, liveVars>>
vars == <<skillVars, fetchVars, catalogVars, writerVars, callVars>>


----------------------------------------------------------------------------
(* Bounds of the model *)

MaxOps == 3         \* skills operations in one run
MaxBody == 2        \* distinct SKILL.md bodies
MaxVer == 2         \* distinct versions / commit hashes

----------------------------------------------------------------------------
(* Optional values *)

None == <<>>
Some(x) == <<x>>
IsSome(o) == Len(o) = 1
Val(o) == o[1]

----------------------------------------------------------------------------
(* Slugs *)

Digits == <<"0", "1", "2", "3", "4", "5", "6", "7", "8", "9">>

RECURSIVE DecStr(_)
\* String(counter) in `${baseSlug}-${counter}`
DecStr(k) == IF k < 10 THEN <<Digits[k + 1]>>
             ELSE DecStr(k \div 10) \o <<Digits[(k % 10) + 1]>>

ToLower(c) == CASE c = "F" -> "f" [] c = "G" -> "g" [] OTHER -> c

SlugChars == {"f", "g", "s", "k", "i", "l", "-"} \cup {Digits[i] : i \in 1..10}

RECURSIVE CollapseDashes(_)
\* .replace(/-+/g, '-')
CollapseDashes(s) ==
    IF Len(s) < 2 THEN s
    ELSE IF s[1] = "-" /\ s[2] = "-" THEN CollapseDashes(Tail(s))
    ELSE <<s[1]>> \o CollapseDashes(Tail(s))

\* .replace(/^-|-$/g, '')
StripDashes(s) ==
    LET a == IF Len(s) > 0 /\ s[1] = "-" THEN Tail(s) ELSE s
    IN  IF Len(a) > 0 /\ a[Len(a)] = "-" THEN SubSeq(a, 1, Len(a) - 1) ELSE a

sanitizeSlug(name) ==
    LET lower == [i \in 1..Len(name) |-> ToLower(name[i])]
        safe  == [i \in 1..Len(lower) |-> IF lower[i] \in SlugChars THEN lower[i] ELSE "-"]
    IN  StripDashes(CollapseDashes(safe))

\* basename(path, extname(path)) of a path whose last component is `name`
extractSlugFromPath(name) == sanitizeSlug(name)

skillExists(sk, slug) == slug \in DOMAIN sk /\ IsSome(sk[slug].md)

\* a resolver that forgets the conflict check
resolveSlugUnchecked(sk, baseSlug) == baseSlug

RECURSIVE resolveLoop(_, _, _, _)
resolveLoop(sk, baseSlug, slug, counter) ==
    IF skillExists(sk, slug)
    THEN resolveLoop(sk, baseSlug, baseSlug \o <<"-">> \o DecStr(counter), counter + 1)
    ELSE slug

resolveSlugConflict(sk, baseSlug) == resolveLoop(sk, baseSlug, baseSlug, 1)

----------------------------------------------------------------------------
(* Skill files and provenance *)

\* A SKILL.md file: fm = the text contains '---'; valid = gray-matter parses it and
\* the frontmatter has name and description; body = what the markdown says.
MdFiles == {[fm |-> FALSE, valid |-> FALSE, body |-> 1],
            [fm |-> TRUE,  valid |-> FALSE, body |-> 1]}
           \cup {[fm |-> TRUE, valid |-> TRUE, body |-> b] : b \in 1..MaxBody}

GoodMd(b) == [fm |-> TRUE, valid |-> TRUE, body |-> b]

\* URL shapes importSkillFromUrl and importSkillFromGit tell apart:
\*   repo   https://github.com/o/<name>   (slash: written with a trailing '/')
\*   tree   https://github.com/o/r/tree/main/skills/<name>
\*   zip    https://host/<name>.zip
\*   md     https://host/<name>.md
\*   other  https://host/<name>.txt
\*   bad    ftp://<name>                  (neither http(s):// nor git@)
\*   none   no url
Url(kind, name) == [kind |-> kind, name |-> name, slash |-> FALSE]
NoUrl == Url("none", <<>>)

\* SkillSource as persisted in .source.json; version 0 = no version field
Source(type, url, version) == [type |-> type, url |-> url, version |-> version, modified |-> FALSE]

\* A LoadedSkill: body stands for metadata and content
Loaded(slug, md, src) == [slug |-> slug, body |-> md.body, source |-> src]

\* A catalog entry as fetchSkillsCatalog builds it: downloadUrl is
\* `${marketplaceUrl}/tree/main/skills/${dir.name}`
CatalogEntry(slug, version) ==
    [slug |-> slug, version |-> version, downloadUrl |-> Url("tree", slug)]

----------------------------------------------------------------------------
(* Skills storage *)

parseSkillFile(md) == IF md.valid THEN Some(md) ELSE None

\* a .source.json whose text JSON.parse rejects
UnparsableJson == [unparsable |-> TRUE]

\* the parse is not guarded: whatever the sidecar holds is the source
readSourceUnguarded(src) == src

\* try { source = JSON.parse(readFileSync(sourceFile)) } catch { }: a sidecar that
\* is absent or does not parse gives no source
readSourceFile(src) ==
    IF IsSome(src) /\ Val(src) # UnparsableJson THEN src ELSE None

loadSkill(sk, slug) ==
    IF slug \notin DOMAIN sk THEN None
    ELSE IF ~IsSome(sk[slug].md) THEN None
    ELSE IF ~IsSome(parseSkillFile(Val(sk[slug].md))) THEN None
    ELSE Some(Loaded(slug, Val(sk[slug].md), readSourceFile(sk[slug].src)))

\* only SKILL.md is removed, the directory stays
removeSkillFile(sk, slug) ==
    IF slug \notin DOMAIN sk THEN sk
    ELSE [sk EXCEPT ![slug].md = None]

\* rmSync(skillDir, {recursive: true}); a slug with no directory changes nothing
deleteSkill(sk, slug) ==
    IF slug \notin DOMAIN sk THEN sk
    ELSE [x \in DOMAIN sk \ {slug} |-> sk[x]]

listSkillSlugs(sk) == {x \in DOMAIN sk : IsSome(sk[x].md)}

----------------------------------------------------------------------------
(* Import helpers.  An importer takes st = [skills, temps, made] and returns  *)
(* st extended with ok, slug, base, err.                                      *)

Fail(st, err) ==
    [skills |-> st.skills, temps |-> st.temps, made |-> st.made,
     ok |-> FALSE, slug |-> <<>>, base |-> <<>>, err |-> err]

Done(st, slug, base) ==
    [skills |-> st.skills, temps |-> st.temps, made |-> st.made,
     ok |-> TRUE, slug |-> slug, base |-> base, err |-> ""]

FreshTemp(tm) == CHOOSE n \in 1..(Cardinality(tm) + 1) : n \notin tm

createTempDir(st) == [st EXCEPT !.temps = @ \cup {FreshTemp(st.temps)}, !.made = @ + 1]

\* cleanup written after the body instead of in a finally block
CleanupOnSuccess(r, t) == IF r.ok THEN [r EXCEPT !.temps = @ \ {t}] ELSE r

\* finally { if (existsSync(tempDir)) rmSync(tempDir, {recursive: true, force: true}) }
Finally(r, t) == [r EXCEPT !.temps = @ \ {t}]

\* mkdirSync(dest, {recursive: true}); cpSync(src, dest): SKILL.md is written, an
\* existing directory keeps what the source does not overwrite
copyDirectory(sk, slug, md) ==
    [x \in DOMAIN sk \cup {slug} |->
        IF x = slug
        THEN [md |-> Some(md), src |-> IF slug \in DOMAIN sk THEN sk[slug].src ELSE None]
        ELSE sk[x]]

saveSourceMetadata(sk, slug, source) == [sk EXCEPT ![slug].src = Some(source)]

\* { type, installedAt, ...source }
MergeSource(type, override) ==
    IF IsSome(override) THEN Val(override) ELSE Source(type, NoUrl, 0)

\* copy, save provenance, reload: the tail every importer shares
Install(st, base, md, source) ==
    LET slug == resolveSlugConflict(st.skills, base)
        sk2  == saveSourceMetadata(copyDirectory(st.skills, slug, md), slug, source)
        st2  == [st EXCEPT !.skills = sk2]
    IN  IF IsSome(loadSkill(sk2, slug))
        THEN Done(st2, slug, base)
        ELSE Fail(st2, "Failed to load imported skill")

----------------------------------------------------------------------------
(* Importers *)

SkillName == <<"s", "k", "i", "l", "l">>     \* 'skill': skill.zip, SKILL.md, the '|| skill' default

\* zip = [exists, readable, name, root, subs]: root is the SKILL.md at the archive
\* root (if any), subs the immediate subdirectories in readdirSync order
FirstSkillDir(zip) ==
    IF IsSome(zip.root) THEN Some([name |-> zip.name, md |-> Val(zip.root)])
    ELSE LET hits == {i \in 1..Len(zip.subs) : IsSome(zip.subs[i].md)}
         IN  IF hits = {} THEN None
             ELSE LET i == CHOOSE j \in hits : \A k \in hits : j <= k
                  IN  Some([name |-> zip.subs[i].name, md |-> Val(zip.subs[i].md)])

ZipBody(st, zip, override) ==
    IF ~zip.readable THEN Fail(st, "Invalid or unsupported zip format")
    ELSE LET found == FirstSkillDir(zip)
         IN  IF ~IsSome(found)
             THEN Fail(st, "ZIP archive does not contain a valid SKILL.md file")
             ELSE Install(st, extractSlugFromPath(Val(found).name), Val(found).md,
                          MergeSource("zip", override))

importSkillFromZip(st, zip, override) ==
    IF ~zip.exists THEN Fail(st, "ZIP file not found")
    ELSE LET t == FreshTemp(st.temps)
         IN  Finally(ZipBody(createTempDir(st), zip, override), t)

\* folder = [exists, name, md]
importSkillFromFolder(st, folder, override) ==
    IF ~folder.exists THEN Fail(st, "Folder not found")
    ELSE IF ~IsSome(folder.md) THEN Fail(st, "Folder does not contain a valid SKILL.md file")
    ELSE Install(st, extractSlugFromPath(folder.name), Val(folder.md),
                 MergeSource("folder", override))

\* /^https?:\/\/.+/ or /^git@.+:.+/
IsValidGitUrl(url) == url.kind \in {"repo", "tree", "zip", "md", "other"}

\* gitUrl.split('/').pop()?.replace('.git', '') || 'skill'
RepoName(url) ==
    IF url.slash \/ url.name = <<>> THEN SkillName
    ELSE CASE url.kind = "zip"   -> url.name \o <<".", "z", "i", "p">>
           [] url.kind = "md"    -> url.name \o <<".", "m", "d">>
           [] url.kind = "other" -> url.name \o <<".", "t", "x", "t">>
           [] OTHER              -> url.name

\* env = what the outside world answers: clone (git clone succeeds), root (SKILL.md
\* at the clone's root), rev (rev-parse HEAD's short hash, 0 = the command fails)
GitBody(st, url, env) ==
    IF ~env.clone THEN Fail(st, "Failed to clone repository")
    ELSE IF ~IsSome(env.root)
    THEN Fail(st, "Git repository does not contain a valid SKILL.md file in the root directory")
    ELSE Install(st, sanitizeSlug(RepoName(url)), Val(env.root), Source("git", url, env.rev))

importSkillFromGit(st, url, env) ==
    IF ~IsValidGitUrl(url) THEN Fail(st, "Invalid Git URL format")
    ELSE LET t == FreshTemp(st.temps)
         IN  Finally(GitBody(createTempDir(st), url, env), t)

\* file = [exists, named, md]: named = basename is SKILL.md, case-insensitively;
\* hint = the caller's suggestedSlug (None, or '' which is falsy too)
importSkillFromFile(st, file, hint) ==
    IF ~file.exists THEN Fail(st, "File not found")
    ELSE IF ~file.named THEN Fail(st, "File must be named SKILL.md (case-insensitive)")
    ELSE IF ~file.md.fm THEN Fail(st, "SKILL.md must contain YAML frontmatter")
    ELSE Install(st,
                 IF IsSome(hint) /\ Val(hint) # <<>> THEN Val(hint)
                 ELSE extractSlugFromPath(<<"S", "K", "I", "L", "L">>),
                 file.md, Source("file", NoUrl, 0))

\* env also holds: subExists / sub (the tree path and its SKILL.md in the clone),
\* http ("neterr", "notok", "ok"), ctype (the response's content-type: "zip", "md",
\* "other"), zip (the downloaded archive), md (the downloaded markdown)
TreeBody(st, url, env) ==
    IF ~env.clone THEN Fail(st, "Failed to clone repository")
    ELSE IF ~env.subExists THEN Fail(st, "Path not found in repository")
    ELSE IF ~IsSome(env.sub) THEN Fail(st, "No valid SKILL.md found")
    ELSE importSkillFromFolder(st, [exists |-> TRUE, name |-> url.name, md |-> env.sub],
                               Some(Source("git", url, 0)))

DownloadBody(st, url, entry, env) ==
    IF env.http = "neterr" THEN Fail(st, "Failed to fetch URL")
    ELSE IF env.http = "notok" THEN Fail(st, "Failed to download from URL")
    ELSE IF env.ctype = "zip" \/ url.kind = "zip"
    THEN importSkillFromZip(st, [env.zip EXCEPT !.exists = TRUE, !.name = SkillName],
             Some(Source("skillssh", url, IF IsSome(entry) THEN Val(entry).version ELSE 0)))
    ELSE IF env.ctype = "md" \/ url.kind = "md"
    THEN importSkillFromFile(st, [exists |-> TRUE, named |-> TRUE, md |-> env.md],
             IF IsSome(entry) THEN Some(Val(entry).slug) ELSE None)
    ELSE Fail(st, "Unsupported file type")

importSkillFromUrl(st, url, entry, env) ==
    IF url.kind = "tree"
    THEN LET t == FreshTemp(st.temps)
         IN  Finally(TreeBody(createTempDir(st), url, env), t)
    ELSE IF url.kind = "repo"
    THEN importSkillFromGit(st, url, env)
    ELSE LET t == FreshTemp(st.temps)
         IN  Finally(DownloadBody(createTempDir(st), url, entry, env), t)

----------------------------------------------------------------------------
(* Update from source *)

FindEntry(catalog, slug) ==
    IF ~IsSome(catalog) THEN None
    ELSE LET hits == {i \in 1..Len(Val(catalog)) : Val(catalog)[i].slug = slug}
         IN  IF hits = {} THEN None
             ELSE Some(Val(catalog)[CHOOSE j \in hits : \A k \in hits : j <= k])

\* skill is a LoadedSkill; catalog is None or Some(sequence of entries)
updateSkill(st, skill, catalog, env) ==
    IF ~IsSome(skill.source)
    THEN Fail(st, "Skill has no source metadata")
    ELSE IF Val(skill.source).url = NoUrl
    THEN Fail(st, "Skill has no update source URL")
    ELSE LET st1 == [st EXCEPT !.skills = deleteSkill(@, skill.slug)]
             src == Val(skill.source)
         IN  CASE src.type = "skillssh" ->
                    LET entry == FindEntry(catalog, skill.slug)
                    IN  IF ~IsSome(entry)
                        THEN Fail(st1, "Skill not found in catalog")
                        ELSE importSkillFromUrl(st1, Val(entry).downloadUrl, entry, env)
               [] src.type = "git" -> importSkillFromGit(st1, src.url, env)
               [] OTHER -> Fail(st1, "Cannot update skill from source type")

----------------------------------------------------------------------------
(* Inputs of the skills operations *)

NameF  == <<"f">>
NameG  == <<"g">>
NameF1 == <<"f", "-", "1">>       \* a source that is itself called f-1
NameFx == <<"F", "_", "1">>       \* 'F_1', which sanitizeSlug turns into f-1

BadMd  == [fm |-> TRUE, valid |-> FALSE, body |-> 1]      \* no name / description
NoFmMd == [fm |-> FALSE, valid |-> FALSE, body |-> 1]     \* no '---' at all

Zip(exists, readable, name, root, subs) ==
    [exists |-> exists, readable |-> readable, name |-> name, root |-> root, subs |-> subs]

Archives ==
    {Zip(TRUE, TRUE, NameF, Some(GoodMd(1)), <<>>),
     Zip(TRUE, TRUE, NameF, Some(BadMd), <<>>),
     Zip(TRUE, TRUE, NameF, None,
         <<[name |-> NameG, md |-> None], [name |-> NameFx, md |-> Some(GoodMd(2))]>>),
     Zip(TRUE, TRUE, NameF, None, <<[name |-> NameG, md |-> None]>>),
     Zip(TRUE, FALSE, NameF, None, <<>>)}

\* archives a server hands out
Downloads ==
    {Zip(TRUE, TRUE, NameF, Some(GoodMd(1)), <<>>),
     Zip(TRUE, TRUE, NameF, None, <<[name |-> NameF, md |-> Some(GoodMd(1))]>>),
     Zip(TRUE, TRUE, NameF, None, <<[name |-> NameF, md |-> Some(BadMd)]>>)}

ZipInputs == Archives \cup {Zip(FALSE, FALSE, NameF, None, <<>>)}

FolderInputs ==
    {[exists |-> FALSE, name |-> NameF, md |-> None],
     [exists |-> TRUE, name |-> NameF, md |-> None],
     [exists |-> TRUE, name |-> NameF, md |-> Some(BadMd)],
     [exists |-> TRUE, name |-> NameF1, md |-> Some(GoodMd(1))],
     [exists |-> TRUE, name |-> NameF, md |-> Some(GoodMd(1))],
     [exists |-> TRUE, name |-> NameF, md |-> Some(GoodMd(MaxBody))]}

FileInputs ==
    {[exists |-> FALSE, named |-> TRUE, md |-> NoFmMd],
     [exists |-> TRUE, named |-> FALSE, md |-> GoodMd(1)],
     [exists |-> TRUE, named |-> TRUE, md |-> NoFmMd],
     [exists |-> TRUE, named |-> TRUE, md |-> BadMd],
     [exists |-> TRUE, named |-> TRUE, md |-> GoodMd(1)]}

\* the suggestedSlug argument matters to a file that passes the checks only
Hints(file) == IF file.exists /\ file.named /\ file.md.fm THEN {None, Some(NameF)} ELSE {None}

GitUrls == {Url("repo", NameF), [Url("repo", NameF) EXCEPT !.slash = TRUE],
            Url("tree", NameF), Url("bad", NameF)}

ImportUrls == {Url("tree", NameF), Url("repo", NameF), Url("zip", NameF),
               Url("md", NameF), Url("other", NameF), Url("bad", NameF)}

\* the catalogEntry argument matters to a direct download only
Entries(url) == IF url.kind \in {"zip", "md"}
                THEN {None, Some(CatalogEntry(NameF, MaxVer))}
                ELSE {None}

Catalogs == {None, Some(<<>>), Some(<<CatalogEntry(NameG, 1), CatalogEntry(NameF, MaxVer)>>)}

\* What the outside world can answer.  Nothing answers by default.
NoEnv == [clone |-> FALSE, root |-> None, rev |-> 0, subExists |-> FALSE, sub |-> None,
          http |-> "neterr", ctype |-> "other",
          zip |-> Zip(TRUE, FALSE, NameF, None, <<>>), md |-> NoFmMd]

\* git clone: only a repository URL can be cloned; a tree, zip or markdown URL is no
\* git remote, so cloning it fails
GitEnvs(url) ==
    {NoEnv} \cup
    (IF url.kind # "repo" THEN {}
     ELSE IF url.slash THEN {[NoEnv EXCEPT !.clone = TRUE, !.root = Some(GoodMd(1)), !.rev = 1]}
     ELSE {[NoEnv EXCEPT !.clone = TRUE],
           [NoEnv EXCEPT !.clone = TRUE, !.root = Some(BadMd), !.rev = 1],
           [NoEnv EXCEPT !.clone = TRUE, !.root = Some(GoodMd(1))],
           [NoEnv EXCEPT !.clone = TRUE, !.root = Some(GoodMd(1)), !.rev = 1],
           [NoEnv EXCEPT !.clone = TRUE, !.root = Some(GoodMd(MaxBody)), !.rev = MaxVer]})

\* a tree URL: the repository https://github.com/o/r.git is cloned
TreeEnvs ==
    {NoEnv, [NoEnv EXCEPT !.clone = TRUE]} \cup
    {[NoEnv EXCEPT !.clone = TRUE, !.subExists = TRUE, !.sub = m] :
        m \in {None, Some(BadMd), Some(GoodMd(1)), Some(GoodMd(MaxBody))}}

\* a direct download; fetch() of a non-http URL fails
DownloadEnvs(url) ==
    LET zips == {[NoEnv EXCEPT !.http = "ok", !.ctype = "zip", !.zip = z] : z \in Downloads}
        mds  == {[NoEnv EXCEPT !.http = "ok", !.ctype = "md", !.md = m] :
                    m \in {NoFmMd, BadMd, GoodMd(1)}}
        one  == {[NoEnv EXCEPT !.http = "ok", !.ctype = "zip",
                               !.zip = Zip(TRUE, TRUE, NameF, Some(GoodMd(1)), <<>>)]}
    IN  {NoEnv} \cup
        (IF url.kind = "bad" THEN {}
         ELSE {[NoEnv EXCEPT !.http = "notok"], [NoEnv EXCEPT !.http = "ok"]} \cup
              (CASE url.kind = "zip" -> zips
                 [] url.kind = "md"  -> mds \cup one
                 [] OTHER            -> one))

UrlEnvs(url) ==
    CASE url.kind = "tree" -> TreeEnvs
      [] url.kind = "repo" -> GitEnvs(url)
      [] OTHER             -> DownloadEnvs(url)

UpdateEnvs(skill, catalog) ==
    IF ~IsSome(skill.source) THEN {NoEnv}
    ELSE IF Val(skill.source).type = "skillssh" THEN TreeEnvs
    ELSE IF Val(skill.source).type = "git" THEN GitEnvs(Val(skill.source).url)
    ELSE {NoEnv}

----------------------------------------------------------------------------
(* The skills operations as actions.  Each runs one call to completion: the  *)
(* importers of zip, folder and file never suspend, and in this              *)
(* specification calls do not overlap.                                       *)

St == [skills |-> skills, temps |-> temps, made |-> 0]

\* errors updateSkill raises before any importer is called
PreImportErrors == {"Skill has no source metadata", "Skill has no update source URL",
                    "Skill not found in catalog", "Cannot update skill from source type"}

Record(kind, arg, r, target, was) ==
    /\ skills' = r.skills
    /\ temps' = r.temps
    /\ ops' = ops + 1
    /\ lastOp' = [kind |-> kind, arg |-> IF r.ok THEN arg ELSE <<>>, ok |-> r.ok, slug |-> r.slug,
                  base |-> r.base, err |-> r.err, made |-> r.made, pre |-> skills,
                  ret |-> IF IsSome(loadSkill(r.skills, r.slug))
                          THEN Val(loadSkill(r.skills, r.slug)).source ELSE None,
                  body |-> IF IsSome(loadSkill(r.skills, r.slug))
                           THEN Val(loadSkill(r.skills, r.slug)).body ELSE 0,
                  target |-> target, was |-> was]
    /\ UNCHANGED <<fetchVars, catalogVars, writerVars, callVars>>

Room == ops < MaxOps

ImportZip ==
    /\ Room
    /\ \E zip \in ZipInputs :
          Record("zip", <<zip>>, importSkillFromZip(St, zip, None), <<>>, None)

ImportFolder ==
    /\ Room
    /\ \E folder \in FolderInputs :
          Record("folder", <<folder>>, importSkillFromFolder(St, folder, None), <<>>, None)

ImportGit ==
    /\ Room
    /\ \E url \in GitUrls : \E env \in GitEnvs(url) :
          Record("git", <<url, env>>, importSkillFromGit(St, url, env), <<>>, None)

ImportFile ==
    /\ Room
    /\ \E file \in FileInputs : \E hint \in Hints(file) :
          Record("file", <<file, hint>>, importSkillFromFile(St, file, hint), <<>>, None)

ImportUrl ==
    /\ Room
    /\ \E url \in ImportUrls : \E entry \in Entries(url) : \E env \in UrlEnvs(url) :
          Record("url", <<url, entry, env>>, importSkillFromUrl(St, url, entry, env),
                 <<>>, None)

Update ==
    \E slug \in DOMAIN skills : \E catalog \in Catalogs :
        /\ Room
        /\ IsSome(loadSkill(skills, slug))
        /\ LET skill == Val(loadSkill(skills, slug))
           IN  \E env \in UpdateEnvs(skill, catalog) :
                  Record("update", <<catalog, env>>, updateSkill(St, skill, catalog, env),
                         slug, skill.source)

Delete ==
    \E slug \in DOMAIN skills \cup {NameG} :
        /\ Room
        /\ Record("delete", <<slug>>,
               [Fail([St EXCEPT !.skills = deleteSkill(@, slug)], "")
                   EXCEPT !.ok = slug \in DOMAIN skills],
               slug, None)

NoOp == [kind |-> "init", arg |-> <<>>, ok |-> FALSE, slug |-> <<>>, base |-> <<>>,
         err |-> "", made |-> 0, pre |-> <<>>, ret |-> None, body |-> 0,
         target |-> <<>>, was |-> None]

SkillsInit ==
    /\ skills = <<>>
    /\ temps = {}
    /\ lastOp = NoOp
    /\ ops = 0

SkillsNext ==
    \/ ImportZip
    \/ ImportFolder
    \/ ImportGit
    \/ ImportFile
    \/ ImportUrl
    \/ Update
    \/ Delete

----------------------------------------------------------------------------
(* fetchWithRetry.  A Response is modelled by what fetchWithRetry and its   *)
(* callers read of it: the status and the X-RateLimit-Reset header, given   *)
(* as the milliseconds from now to the reset.  Status 0 stands for fetch()  *)
(* rejecting, a network failure.                                            *)

MAX_RETRIES == 3
INITIAL_RETRY_DELAY == 1000
MAX_RETRY_DELAY == 10000

Min(a, b) == IF a <= b THEN a ELSE b
Max(a, b) == IF a >= b THEN a ELSE b

RECURSIVE Pow2(_)
Pow2(n) == IF n <= 0 THEN 1 ELSE 2 * Pow2(n - 1)

Response(status, reset) == [status |-> status, reset |-> reset]
NetworkError == Response(0, None)
IsNetworkError(resp) == resp.status = 0
\* a response counts as ok whatever its status
ResponseReceived(resp) == TRUE

ResponseOk(resp) == resp.status \in 200..299

\* Math.random() * 2 - 1 lies in [-1, 1): the jitter in percent of the delay
Jitters == {-25, 24}

calculateBackoffDelay(attempt, jitter) ==
    LET exponentialDelay == Min(INITIAL_RETRY_DELAY * Pow2(attempt), MAX_RETRY_DELAY)
    IN  (exponentialDelay * (100 + jitter)) \div 100

\* attempt <= MAX_RETRIES: one retry more than the ceiling
CanRetryOnceMore(attempt) == attempt <= MAX_RETRIES

CanRetry(attempt) == attempt < MAX_RETRIES

\* the catch block: an error raised in the try block is retried or raised again
CatchError(err, attempt) == IF CanRetry(attempt) THEN "retry" ELSE err

\* what one pass through fetchWithRetry does with the answer to its request:
\* "retry" (sleep and call itself with attempt + 1), "return" the response, or
\* raise "network" (the error of fetch) or "ratelimit" (the rate-limit error)
FetchStep(resp, attempt) ==
    IF IsNetworkError(resp) THEN CatchError("network", attempt)
    ELSE IF resp.status \in {403, 429}
         THEN IF CanRetry(attempt) THEN "retry" ELSE CatchError("ratelimit", attempt)
    ELSE IF ~ResponseOk(resp) /\ CanRetry(attempt) THEN "retry"
    ELSE "return"

\* the sleep before a retry
WaitTime(resp, attempt, jitter) ==
    IF ~IsNetworkError(resp) /\ resp.status \in {403, 429} /\ IsSome(resp.reset)
    THEN Min(Max(Val(resp.reset) + 1000, 0), MAX_RETRY_DELAY)
    ELSE calculateBackoffDelay(attempt, jitter)

\* The whole call as a function of the answers its requests get: answers[k] is
\* the answer to the k-th request, the last one repeating.  The recursive call is
\* returned without await, so an error raised by a deeper call passes through the
\* outer calls' catch blocks unhandled.
Answer(answers, k) == answers[Min(k, Len(answers))]

RECURSIVE fetchWithRetry(_, _)
fetchWithRetry(answers, attempt) ==
    LET resp == Answer(answers, attempt + 1)
        step == FetchStep(resp, attempt)
    IN  IF step = "retry" THEN fetchWithRetry(answers, attempt + 1)
        ELSE [outcome |-> step, response |-> resp, requests |-> attempt + 1]

Responses ==
    {Response(200, None), Response(404, None), Response(500, None),
     Response(403, None), Response(403, Some(-5000)), Response(429, Some(60000)),
     NetworkError}

FetchIdle == [pc |-> "idle", attempt |-> 0, log |-> <<>>, waits |-> <<>>, result |-> None]

\* fetchWithRetry(url) is called
FetchCall ==
    /\ fetch.pc = "idle"
    /\ fetch' = [fetch EXCEPT !.pc = "request"]
    /\ UNCHANGED <<skillVars, catalogVars, writerVars, callVars>>

\* one request and what the call does with its answer
FetchRequest ==
    /\ fetch.pc = "request"
    /\ \E resp \in Responses : \E jitter \in Jitters :
          LET step == FetchStep(resp, fetch.attempt)
              log == Append(fetch.log, resp)
          IN  fetch' =
                IF step = "retry"
                THEN [fetch EXCEPT !.attempt = @ + 1, !.log = log,
                         !.waits = Append(@, WaitTime(resp, fetch.attempt, jitter))]
                ELSE [fetch EXCEPT !.log = log,
                         !.pc = IF step = "return" THEN "returned" ELSE "raised",
                         !.result = Some([outcome |-> step, response |-> resp])]
    /\ UNCHANGED <<skillVars, catalogVars, writerVars, callVars>>

FetchInit == fetch = FetchIdle

FetchNext ==
    \/ FetchCall
    \/ FetchRequest

----------------------------------------------------------------------------
(* The catalog: fetchSkillsCatalog, loadCachedCatalog, getSkillsCatalog.    *)
(* An ISO date string is a record holding the time it denotes.              *)

MaxClock == 2       \* values of Date.now() in the catalog specification

toISOString(ms) == [iso |-> ms]
getTime(date) == date.iso

Catalog(entries, lastFetched) == [skills |-> entries, lastFetched |-> lastFetched]

\* the cache file: missing, unparsable, or a catalog as fetchSkillsCatalog wrote it
NoCache == [state |-> "missing", skills |-> <<>>, lastFetched |-> toISOString(0)]
CorruptCache == [state |-> "corrupt", skills |-> <<>>, lastFetched |-> toISOString(0)]
CacheOf(catalog) ==
    [state |-> "ok", skills |-> catalog.skills, lastFetched |-> catalog.lastFetched]

MarketUrl(host, path) == [host |-> host, path |-> path]

parseGitHubUrl(url) ==
    IF url.host = "github.com" /\ Len(url.path) >= 2
    THEN Some([owner |-> url.path[1], repo |-> url.path[2]])
    ELSE None

\* age >= cacheTTL: a cache exactly cacheTTL old counts as expired
IsExpiredAtTtl(age, cacheTTL) == age >= cacheTTL

IsExpired(age, cacheTTL) == age > cacheTTL

loadCachedCatalog(c, t, cacheTTL) ==
    IF c.state = "missing" THEN None
    ELSE IF c.state = "corrupt" THEN None
    ELSE IF IsExpired(t - getTime(c.lastFetched), cacheTTL) THEN None
    ELSE Some(Catalog(c.skills, c.lastFetched))

\* the request for one directory's SKILL.md: the entry, or null
FetchEntry(dir) ==
    LET got == fetchWithRetry(dir.answers, 0)
    IN  IF got.outcome # "return" THEN None
        ELSE IF ~ResponseOk(got.response) THEN None
        ELSE IF ~dir.frontmatter THEN None
        ELSE Some(CatalogEntry(dir.name, dir.version))

\* a loop that gives up at the first directory without an entry
RECURSIVE FetchEntriesUntilFailure(_)
FetchEntriesUntilFailure(dirs) ==
    IF dirs = <<>> \/ FetchEntry(Head(dirs)) = None THEN <<>>
    ELSE FetchEntry(Head(dirs)) \o FetchEntriesUntilFailure(Tail(dirs))

RECURSIVE FetchEntries(_)
FetchEntries(dirs) ==
    IF dirs = <<>> THEN <<>>
    ELSE FetchEntry(Head(dirs)) \o FetchEntries(Tail(dirs))

RECURSIVE EntryRequests(_)
EntryRequests(dirs) ==
    IF dirs = <<>> THEN 0
    ELSE fetchWithRetry(Head(dirs).answers, 0).requests + EntryRequests(Tail(dirs))

CatalogResult(ok, ret, c, requests, fetched, err) ==
    [ok |-> ok, ret |-> ret, cache |-> c, requests |-> requests, fetched |-> fetched,
     err |-> err]

\* a fetch that gives up, and leaves the cache alone, when the request for some
\* directory's SKILL.md raises
fetchSkillsCatalogOrRaise(c, t, marketplaceUrl, env) ==
    IF ~IsSome(parseGitHubUrl(marketplaceUrl))
    THEN CatalogResult(FALSE, None, c, 0, TRUE, "Invalid GitHub repository URL")
    ELSE
    LET listing == fetchWithRetry(env.listing, 0)
    IN  IF listing.outcome # "return"
        THEN CatalogResult(FALSE, None, c, listing.requests, TRUE, listing.outcome)
        ELSE IF ~ResponseOk(listing.response)
        THEN CatalogResult(FALSE, None, c, listing.requests, TRUE,
                           "Failed to fetch skills directory")
        ELSE IF \E i \in DOMAIN env.dirs :
                    fetchWithRetry(env.dirs[i].answers, 0).outcome # "return"
        THEN CatalogResult(FALSE, None, c, listing.requests + EntryRequests(env.dirs),
                           TRUE, "Failed to fetch skill")
        ELSE LET catalog == Catalog(FetchEntries(env.dirs), toISOString(t))
             IN  CatalogResult(TRUE, Some(catalog), CacheOf(catalog),
                               listing.requests + EntryRequests(env.dirs), TRUE, "")

\* env.listing: the answers to the directory listing request; env.dirs: the
\* directories it lists, each with the answers to the request for its SKILL.md
fetchSkillsCatalog(c, t, marketplaceUrl, env) ==
    IF ~IsSome(parseGitHubUrl(marketplaceUrl))
    THEN CatalogResult(FALSE, None, c, 0, TRUE, "Invalid GitHub repository URL")
    ELSE
    LET listing == fetchWithRetry(env.listing, 0)
    IN  IF listing.outcome # "return"
        THEN CatalogResult(FALSE, None, c, listing.requests, TRUE, listing.outcome)
        ELSE IF ~ResponseOk(listing.response)
        THEN CatalogResult(FALSE, None, c, listing.requests, TRUE,
                           "Failed to fetch skills directory")
        ELSE LET catalog == Catalog(FetchEntries(env.dirs), toISOString(t))
             IN  CatalogResult(TRUE, Some(catalog), CacheOf(catalog),
                               listing.requests + EntryRequests(env.dirs), TRUE, "")

getSkillsCatalog(c, t, forceRefresh, marketplaceUrl, cacheTTL, env) ==
    LET cached == IF forceRefresh THEN None ELSE loadCachedCatalog(c, t, cacheTTL)
    IN  IF IsSome(cached)
        THEN CatalogResult(TRUE, cached, c, 0, FALSE, "")
        ELSE fetchSkillsCatalog(c, t, marketplaceUrl, env)

(* Inputs *)

AnswersOk == <<Response(200, None)>>
AnswersFlaky == <<Response(403, None), Response(403, None), Response(403, None),
                  Response(200, None)>>
AnswersRateLimited == <<Response(403, None)>>
AnswersNotFound == <<Response(404, None)>>
AnswersDown == <<NetworkError>>

Dir(name, answers, frontmatter, version) ==
    [name |-> name, answers |-> answers, frontmatter |-> frontmatter,
     version |-> version]

DirLists ==
    {<<>>,
     <<Dir(NameF, AnswersOk, TRUE, 1)>>,
     <<Dir(NameF, AnswersOk, TRUE, 2), Dir(NameG, AnswersRateLimited, TRUE, 1)>>,
     <<Dir(NameF, AnswersNotFound, TRUE, 1), Dir(NameG, AnswersFlaky, FALSE, 1),
       Dir(NameF1, AnswersDown, TRUE, 1)>>,
     <<Dir(NameF, AnswersNotFound, TRUE, 1), Dir(NameG, AnswersFlaky, TRUE, 2),
       Dir(NameF1, AnswersOk, FALSE, 1), Dir(NameFx, AnswersRateLimited, TRUE, 1),
       Dir(<<"h">>, AnswersOk, TRUE, 1)>>}

FetchEnvs ==
    {[listing |-> l, dirs |-> d] :
        l \in {AnswersOk}, d \in DirLists}
    \cup {[listing |-> AnswersFlaky, dirs |-> <<Dir(NameG, AnswersOk, TRUE, 1)>>]}
    \cup {[listing |-> l, dirs |-> <<>>] :
            l \in {AnswersRateLimited, AnswersNotFound, AnswersDown}}

MarketUrls ==
    {MarketUrl("github.com", <<"anthropics", "skills">>),
     MarketUrl("example.com", <<"anthropics", "skills">>)}

Ttls == {0, 1}

NoGet == [called |-> FALSE, force |-> FALSE, ttl |-> 0, urlOk |-> FALSE, at |-> 0,
          pre |-> NoCache, post |-> NoCache, ok |-> FALSE, ret |-> None,
          requests |-> 0, fetched |-> FALSE, env |-> [listing |-> <<>>, dirs |-> <<>>]]

\* one call of getSkillsCatalog, run to completion
GetCatalog ==
    /\ \E forceRefresh \in BOOLEAN : \E url \in MarketUrls : \E ttl \in Ttls :
       \E env \in FetchEnvs :
          LET r == getSkillsCatalog(cache, now, forceRefresh, url, ttl, env)
          IN  /\ cache' = r.cache
              /\ lastGet' = [called |-> TRUE, force |-> forceRefresh, ttl |-> ttl,
                             urlOk |-> IsSome(parseGitHubUrl(url)), at |-> now,
                             pre |-> cache, post |-> r.cache, ok |-> r.ok,
                             ret |-> r.ret, requests |-> r.requests,
                             fetched |-> r.fetched, env |-> env]
    /\ UNCHANGED <<now, skillVars, fetchVars, writerVars, callVars>>

\* time passes
Tick ==
    /\ now < MaxClock
    /\ now' = now + 1
    /\ UNCHANGED <<cache, lastGet, skillVars, fetchVars, writerVars, callVars>>

\* the cache file is damaged or removed outside the program
LoseCache ==
    /\ cache.state = "ok"
    /\ cache' \in {NoCache, CorruptCache}
    /\ UNCHANGED <<now, lastGet, skillVars, fetchVars, writerVars, callVars>>

CatalogInit ==
    /\ cache = NoCache
    /\ now = 0
    /\ lastGet = NoGet

CatalogNext ==
    \/ GetCatalog
    \/ Tick
    \/ LoseCache

----------------------------------------------------------------------------
(* The Claude Code transcript writer (ClaudeCodeWriter).  A transcript file *)
(* is the sequence of its lines; a line that is not valid JSON has type     *)
(* "malformed".  A string is a sequence of one-character strings, except    *)
(* that the text '[Thinking: x]' inside a message is one element.           *)

MaxExports == 2     \* calls of exportSession in one run
MaxExternal == 1    \* lines the Claude Code CLI itself writes in one run

RECURSIVE TrimStart(_)
TrimStart(s) == IF s # <<>> /\ Head(s) = " " THEN TrimStart(Tail(s)) ELSE s

RECURSIVE TrimEnd(_)
TrimEnd(s) == IF s # <<>> /\ s[Len(s)] = " " THEN TrimEnd(SubSeq(s, 1, Len(s) - 1)) ELSE s

\* String.prototype.trim
Trim(s) == TrimEnd(TrimStart(s))

ThinkToken == "[Thinking: x]"
ThinkText == <<"x">>

Block(type, text) == [type |-> type, text |-> text]

NoContent == [kind |-> "none", text |-> <<>>, blocks |-> <<>>]
StringContent(text) == [kind |-> "string", text |-> text, blocks |-> <<>>]
BlockContent(blocks) == [kind |-> "blocks", text |-> <<>>, blocks |-> blocks]

\* one line of a transcript file (ClaudeCodeTranscriptLine and the other entries
\* that occur in a transcript), with the fields the writer reads or writes
TranscriptLine(type, uuid, parentUuid, timestamp, content, sessionId, cwd, gitBranch, customTitle) ==
    [type |-> type, uuid |-> uuid, parentUuid |-> parentUuid, timestamp |-> timestamp,
     content |-> content, sessionId |-> sessionId, cwd |-> cwd, gitBranch |-> gitBranch,
     customTitle |-> customTitle]

MalformedLine ==
    TranscriptLine("malformed", None, None, None, NoContent, None, None, None, None)

SnapshotLine(t) ==
    TranscriptLine("file-history-snapshot", None, None, Some(toISOString(t)), NoContent,
                   None, None, None, None)

IsMessageLine(line) == line.type \in {"user", "assistant"}

\* the text before a thinking block, or after the last one, becomes a text block
\* when it is not blank
PushText(blocks, run) ==
    IF Trim(run) # <<>> THEN Append(blocks, Block("text", Trim(run))) ELSE blocks

RECURSIVE SplitThinking(_, _, _)
SplitThinking(rest, run, blocks) ==
    IF rest = <<>> THEN PushText(blocks, run)
    ELSE IF Head(rest) = ThinkToken
    THEN SplitThinking(Tail(rest), <<>>,
                       Append(PushText(blocks, run), Block("thinking", ThinkText)))
    ELSE SplitThinking(Tail(rest), Append(run, Head(rest)), blocks)

convertMessage(message, sessionId, cwd, parentUuid, gitBranch, t) ==
    LET parsed == SplitThinking(message.content, <<>>, <<>>)
        content == IF parsed = <<>> THEN <<Block("text", message.content)>> ELSE parsed
    IN  TranscriptLine(message.type, Some(message.id), parentUuid,
                       IF IsSome(message.timestamp)
                       THEN Some(toISOString(Val(message.timestamp)))
                       ELSE Some(toISOString(t)),
                       BlockContent(content), Some(sessionId), Some(cwd), gitBranch, None)

\* a writer that appends every session message again
NeverSeen(existingUuids, uuid) == FALSE

\* existingUuids?.has(line.uuid): existingUuids is None on the new-transcript path
HasUuid(existingUuids, uuid) == IsSome(existingUuids) /\ Val(uuid) \in Val(existingUuids)

\* a loop that links every line to the starting parent
KeepParent(parentUuid, line) == parentUuid

\* parentUuid = line.uuid, for a line that is pushed and for one that is skipped
NextParent(parentUuid, line) == line.uuid

RECURSIVE BuildMessageLines(_, _, _, _, _, _, _, _)
BuildMessageLines(messages, sessionId, workDir, gitBranch, existingUuids, parentUuid, t, lines) ==
    IF messages = <<>> THEN lines
    ELSE IF Head(messages).type \notin {"user", "assistant"}
    THEN BuildMessageLines(Tail(messages), sessionId, workDir, gitBranch, existingUuids,
                           parentUuid, t, lines)
    ELSE LET line == convertMessage(Head(messages), sessionId, workDir, parentUuid,
                                    gitBranch, t)
         IN  BuildMessageLines(Tail(messages), sessionId, workDir, gitBranch,
                               existingUuids, NextParent(parentUuid, line), t,
                               IF HasUuid(existingUuids, line.uuid) THEN lines
                               ELSE Append(lines, line))

buildTranscriptLines(session, sessionId, workDir, gitBranch, existingUuids, includeSnapshot, parentUuid, t) ==
    BuildMessageLines(session.messages, sessionId, workDir, gitBranch, existingUuids,
                      parentUuid, t,
                      IF includeSnapshot THEN <<SnapshotLine(t)>> ELSE <<>>)

readTranscriptEntries(file) == SelectSeq(file, LAMBDA line : line.type # "malformed")

\* a set that holds the uuid of the last entry only
collectLastUuid(entries) ==
    IF entries # <<>> /\ IsSome(entries[Len(entries)].uuid)
    THEN {Val(entries[Len(entries)].uuid)} ELSE {}

collectExistingUuids(entries) ==
    {Val(entries[i].uuid) : i \in {j \in DOMAIN entries : IsSome(entries[j].uuid)}}

\* the greatest of a non-empty set of indexes
LastIndex(hits) == CHOOSE i \in hits : \A j \in hits : j <= i

getLastMessageUuid(entries) ==
    LET hits == {i \in DOMAIN entries :
                    IsMessageLine(entries[i]) /\ IsSome(entries[i].uuid)}
    IN  IF hits = {} THEN None ELSE entries[LastIndex(hits)].uuid

\* the title the transcript was given first
getFirstCustomTitle(entries) ==
    LET hits == {i \in DOMAIN entries :
                    entries[i].type = "custom-title" /\ IsSome(entries[i].customTitle)}
    IN  IF hits = {} THEN None
        ELSE entries[CHOOSE i \in hits : \A j \in hits : i <= j].customTitle

getLastCustomTitle(entries) ==
    LET hits == {i \in DOMAIN entries :
                    entries[i].type = "custom-title" /\ IsSome(entries[i].customTitle)}
    IN  IF hits = {} THEN None ELSE entries[LastIndex(hits)].customTitle

extractProjectPath(entries) ==
    LET hits == {i \in DOMAIN entries : IsSome(entries[i].cwd)}
    IN  IF hits = {} THEN None
        ELSE entries[CHOOSE i \in hits : \A j \in hits : i <= j].cwd

getMessageLines(lines) == SelectSeq(lines, IsMessageLine)

normalizeCustomTitle(name) ==
    IF IsSome(name) /\ Trim(Val(name)) # <<>> THEN Some(Trim(Val(name))) ELSE None

buildCustomTitleLine(sessionId, title) ==
    TranscriptLine("custom-title", None, None, None, NoContent, Some(sessionId), None,
                   None, Some(title))

HasTextBlock(content) ==
    \E i \in DOMAIN content.blocks :
        content.blocks[i].type = "text" /\ Trim(content.blocks[i].text) # <<>>

\* whether countTranscriptMessages counts the line
Counted(line) ==
    IF line.type = "user"
    THEN IF line.content.kind = "string" THEN Trim(line.content.text) # <<>>
         ELSE line.content.kind = "blocks" /\ HasTextBlock(line.content)
    ELSE IF line.type = "assistant"
    THEN line.content.kind = "blocks" /\ HasTextBlock(line.content)
    ELSE FALSE

\* a count of every user and assistant line, with or without text
countMessageLines(lines) == Len(getMessageLines(lines))

countTranscriptMessages(lines) == Len(SelectSeq(lines, Counted))

PathAlnum == {"w", "c", "p"} \cup {Digits[i] : i \in 1..10}

\* workingDirectory.replace(/[^a-zA-Z0-9]/g, '-')
extractProjectName(workingDirectory) ==
    [i \in 1..Len(workingDirectory) |->
        IF workingDirectory[i] \in PathAlnum THEN workingDirectory[i] ELSE "-"]

WorkW == <<"/", "w">>
ProcessCwd == <<"/", "c">>

\* session.workingDirectory || session.sdkCwd || process.cwd()
resolveWorkDir(session) ==
    IF IsSome(session.workingDirectory) /\ Val(session.workingDirectory) # <<>>
    THEN Val(session.workingDirectory) ELSE ProcessCwd

\* the branch in <workDir>/.git/HEAD: /w is a checkout of main, /c is no repository
detectGitBranch(workDir) == IF workDir = WorkW THEN Some(<<"m">>) ELSE None

\* the path {projectsDir}/<dir>/<sessionId>.jsonl
TranscriptPath(dir, sessionId) == <<dir, sessionId>>

findTranscriptFile(files, sessionId) ==
    LET hits == {p \in DOMAIN files : p[2] = sessionId}
    IN  IF hits = {} THEN None ELSE Some(CHOOSE p \in hits : TRUE)

\* fs.promises.writeFile: the file is created or replaced
writeFile(files, path, content) ==
    [p \in DOMAIN files \cup {path} |-> IF p = path THEN content ELSE files[p]]

\* an append that replaces what the file held
overwriteTranscriptLines(file, lines) == lines

\* a writer that puts the new lines before the lines the file holds
prependTranscriptLines(file, lines) == lines \o file

appendTranscriptLines(file, lines) == file \o lines

\* firstPrompt: the text blocks of the first user line joined, or its string content
RECURSIVE JoinText(_)
JoinText(blocks) ==
    IF blocks = <<>> THEN <<>>
    ELSE (IF Head(blocks).type = "text" THEN Head(blocks).text ELSE <<>>)
         \o JoinText(Tail(blocks))

FirstPrompt(lines) ==
    LET users == SelectSeq(lines, LAMBDA line : line.type = "user")
    IN  IF users = <<>> THEN <<>>
        ELSE IF users[1].content.kind = "blocks" THEN JoinText(users[1].content.blocks)
        ELSE IF users[1].content.kind = "string" THEN users[1].content.text
        ELSE <<>>

\* index.entries.sort((a, b) => Date(b.modified) - Date(a.modified)): stable, newest
\* first
RECURSIVE InsertByModified(_, _)
InsertByModified(sorted, e) ==
    IF sorted = <<>> THEN <<e>>
    ELSE IF getTime(Head(sorted).modified) >= getTime(e.modified)
    THEN <<Head(sorted)>> \o InsertByModified(Tail(sorted), e)
    ELSE <<e>> \o sorted

\* an index that is written in the order its entries were pushed
PushOrder(entries) == entries

RECURSIVE SortByModified(_)
SortByModified(entries) ==
    IF entries = <<>> THEN <<>>
    ELSE InsertByModified(SortByModified(SubSeq(entries, 1, Len(entries) - 1)),
                          entries[Len(entries)])

\* the entries of {projectDir}/sessions-index.json; none when the file is missing
ReadIndex(idx, projectDir) == IF projectDir \in DOMAIN idx THEN idx[projectDir] ELSE <<>>

\* fileMtime is not modelled
updateSessionsIndex(idx, projectDir, sessionId, transcriptPath, projectPath, session, transcriptLines, customTitle) ==
    LET messageLines == getMessageLines(transcriptLines)
        entry ==
            [sessionId |-> sessionId,
             fullPath |-> transcriptPath,
             firstPrompt |-> FirstPrompt(transcriptLines),
             customTitle |-> customTitle,
             messageCount |-> countTranscriptMessages(transcriptLines),
             created |-> IF messageLines # <<>> /\ IsSome(messageLines[1].timestamp)
                         THEN Val(messageLines[1].timestamp)
                         ELSE toISOString(session.createdAt),
             modified |-> IF messageLines # <<>>
                             /\ IsSome(messageLines[Len(messageLines)].timestamp)
                          THEN Val(messageLines[Len(messageLines)].timestamp)
                          ELSE toISOString(session.lastUsedAt),
             gitBranch |-> IF messageLines # <<>>
                           THEN messageLines[Len(messageLines)].gitBranch ELSE None,
             projectPath |-> projectPath]
        others == SelectSeq(ReadIndex(idx, projectDir),
                            LAMBDA e : e.sessionId # sessionId)
    IN  [d \in DOMAIN idx \cup {projectDir} |->
            IF d = projectDir THEN SortByModified(Append(others, entry)) ELSE idx[d]]

HistoryEntry(sessionId, workingDirectory, preview, t) ==
    [display |-> preview, timestamp |-> t, project |-> workingDirectory,
     sessionId |-> sessionId]

ExportedSession == <<"E">>      \* 'Exported Session'

updateHistory(log, sessionId, workingDirectory, preview, t) ==
    Append(log, HistoryEntry(sessionId, workingDirectory, preview, t))

(* Inputs *)

StoredMessage(id, type, content, timestamp) ==
    [id |-> <<"m", id>>, type |-> type, content |-> content, timestamp |-> timestamp]

MsgUser == StoredMessage(1, "user", <<"a">>, Some(1))
MsgThinking == StoredMessage(2, "assistant", <<ThinkToken>>, Some(2))
MsgMixed == StoredMessage(3, "assistant", <<"a", " ", ThinkToken, " ">>, None)
MsgTool == StoredMessage(4, "tool", <<"a">>, Some(2))
MsgBlank == StoredMessage(5, "user", <<" ">>, Some(2))

MessageLists ==
    {<<>>, <<MsgUser>>, <<MsgUser, MsgThinking>>,
     <<MsgUser, MsgTool, MsgThinking, MsgMixed>>, <<MsgBlank, MsgMixed>>}

SessionNames == {None, Some(<<" ">>), Some(<<"a", " ">>), Some(<<"b">>)}

StoredSession(sdkSessionId, name, messages, workingDirectory) ==
    [sdkSessionId |-> sdkSessionId, name |-> name, messages |-> messages,
     workingDirectory |-> workingDirectory, createdAt |-> 1, lastUsedAt |-> 2]

\* the external session ids a session may carry: none, that of a transcript on disk,
\* or one no transcript exists for
SdkSessionIds(files) == {None, Some(<<"sdk", 1>>)} \cup {Some(p[2]) : p \in DOMAIN files}

\* the working directory of the session and the projectName argument
Projects == {[workingDirectory |-> Some(WorkW), projectName |-> None],
             [workingDirectory |-> None, projectName |-> Some(<<"p">>)]}

\* randomUUID(): an id no session has
randomUUID == <<"uuid", wclock.exports + 1>>

WNow == 3 + wclock.exports + wclock.externals

Idle == [pc |-> "idle"]

NoExport == [done |-> FALSE, crashed |-> FALSE]

(* exportSession, one step for each file it writes *)

\* the call begins: it settles the session id, looks for the transcript, reads it
\* when it exists, and builds the lines it is going to write
ExportBegin ==
    /\ exp.pc = "idle"
    /\ wclock.exports < MaxExports
    /\ \E sdk \in SdkSessionIds(transcripts) : \E name \in SessionNames :
       \E messages \in MessageLists : \E project \in Projects :
          LET session == StoredSession(sdk, name, messages, project.workingDirectory)
              claudeSessionId == IF IsSome(sdk) THEN Val(sdk) ELSE randomUUID
              workDir == resolveWorkDir(session)
              dir == IF IsSome(project.projectName) THEN Val(project.projectName)
                     ELSE extractProjectName(workDir)
              gitBranch == detectGitBranch(workDir)
              found == findTranscriptFile(transcripts, claudeSessionId)
              customTitle == normalizeCustomTitle(name)
              entries == IF IsSome(found) THEN readTranscriptEntries(transcripts[Val(found)])
                         ELSE <<>>
              newLines ==
                  IF IsSome(found)
                  THEN buildTranscriptLines(session, claudeSessionId, workDir, gitBranch,
                                            Some(collectExistingUuids(entries)), FALSE,
                                            getLastMessageUuid(entries), WNow)
                  ELSE buildTranscriptLines(session, claudeSessionId, workDir, gitBranch,
                                            None, TRUE, None, WNow)
              metadataLines ==
                  IF IsSome(customTitle)
                     /\ (~IsSome(found) \/ customTitle # getLastCustomTitle(entries))
                  THEN <<buildCustomTitleLine(claudeSessionId, Val(customTitle))>>
                  ELSE <<>>
          IN  exp' = [pc |-> "write", session |-> session, id |-> claudeSessionId,
                      workDir |-> workDir, existing |-> IsSome(found),
                      path |-> IF IsSome(found) THEN Val(found)
                               ELSE TranscriptPath(dir, claudeSessionId),
                      customTitle |-> customTitle, entries |-> entries,
                      newLines |-> newLines, metadataLines |-> metadataLines,
                      before |-> IF IsSome(found) THEN transcripts[Val(found)] ELSE <<>>,
                      t |-> WNow]
    /\ wclock' = [wclock EXCEPT !.exports = @ + 1]
    /\ UNCHANGED <<transcripts, indexes, history, lastExport, prevExport>>
    /\ UNCHANGED <<skillVars, fetchVars, catalogVars, callVars>>

\* a call that updates the history log on both paths
AlwaysHistory(existing) == "history"

\* what follows the transcript write: the existing-transcript path goes on to
\* updateSessionsIndex, the other path to updateHistory first
AfterWrite(existing) == IF existing THEN "index" ELSE "history"

\* the transcript is appended to (existing transcript) or written (no transcript)
ExportWrite ==
    /\ exp.pc = "write"
    /\ LET lines == exp.newLines \o exp.metadataLines
       IN  IF exp.existing
           THEN /\ transcripts' =
                      IF lines # <<>>
                      THEN [transcripts EXCEPT
                               ![exp.path] = appendTranscriptLines(@, lines)]
                      ELSE transcripts
                /\ exp' = [exp EXCEPT !.pc = AfterWrite(TRUE), !.entries = @ \o lines]
           ELSE /\ transcripts' = writeFile(transcripts, exp.path, lines)
                /\ exp' = [exp EXCEPT !.pc = AfterWrite(FALSE)]
    /\ UNCHANGED <<indexes, history, wclock, lastExport, prevExport>>
    /\ UNCHANGED <<skillVars, fetchVars, catalogVars, callVars>>

\* no transcript existed: one entry is appended to history.jsonl
ExportHistory ==
    /\ exp.pc = "history"
    /\ history' = updateHistory(history, exp.id, exp.workDir,
                                IF IsSome(exp.session.name) /\ Val(exp.session.name) # <<>>
                                THEN Val(exp.session.name) ELSE ExportedSession,
                                exp.t)
    /\ exp' = [exp EXCEPT !.pc = "index"]
    /\ UNCHANGED <<transcripts, indexes, wclock, lastExport, prevExport>>
    /\ UNCHANGED <<skillVars, fetchVars, catalogVars, callVars>>

\* the index of the transcript's directory is rewritten and the call returns
ExportIndex ==
    /\ exp.pc = "index"
    /\ LET transcriptLines == IF exp.existing THEN getMessageLines(exp.entries)
                              ELSE exp.newLines
           projectPath == IF exp.existing /\ IsSome(extractProjectPath(exp.entries))
                          THEN Val(extractProjectPath(exp.entries)) ELSE exp.workDir
           idx == updateSessionsIndex(indexes, exp.path[1], exp.id, exp.path, projectPath,
                                      exp.session, transcriptLines, exp.customTitle)
           mine == SelectSeq(idx[exp.path[1]], LAMBDA e : e.sessionId = exp.id)
       IN  /\ indexes' = idx
           /\ lastExport' =
                 [done |-> TRUE, crashed |-> FALSE, session |-> exp.session,
                  id |-> exp.id,
                  dir |-> exp.path[1], projectPath |-> projectPath,
                  existing |-> exp.existing, before |-> exp.before,
                  appended |-> Len(getMessageLines(exp.newLines)),
                  titled |-> exp.metadataLines # <<>>,
                  messageCount |-> mine[1].messageCount]
    /\ prevExport' = lastExport
    /\ exp' = Idle
    /\ UNCHANGED <<transcripts, history, wclock>>
    /\ UNCHANGED <<skillVars, fetchVars, catalogVars, callVars>>

\* the process exits while the call waits between the transcript write and the
\* index write: the files keep what was written, the call never returns, and the
\* caller's session keeps the sdkSessionId it had
Crash ==
    /\ exp.pc \in {"history", "index"}
    /\ lastExport' = [done |-> FALSE, crashed |-> TRUE, session |-> exp.session,
                      id |-> exp.id, path |-> exp.path, existing |-> exp.existing]
    /\ prevExport' = lastExport
    /\ exp' = Idle
    /\ UNCHANGED <<transcripts, indexes, history, wclock>>
    /\ UNCHANGED <<skillVars, fetchVars, catalogVars, callVars>>

(* The Claude Code CLI, which owns the transcript files *)

CliSession == <<"cli", 1>>
CliPath == TranscriptPath(extractProjectName(WorkW), CliSession)

ExternalLines(file, sessionId, t) ==
    LET parent == getLastMessageUuid(readTranscriptEntries(file))
        uuid == Some(<<"e", t>>)
    IN  {TranscriptLine("user", uuid, parent, Some(toISOString(t)),
                        StringContent(<<"h">>), Some(sessionId), Some(WorkW), None, None),
         TranscriptLine("assistant", uuid, parent, Some(toISOString(t)),
                        BlockContent(<<Block("text", <<"r">>)>>), Some(sessionId),
                        Some(WorkW), None, None),
         buildCustomTitleLine(sessionId, <<"z">>),
         MalformedLine}

\* between two exports the CLI appends a line to a transcript, or starts its own
ExternalAppend ==
    /\ exp.pc = "idle"
    /\ wclock.externals < MaxExternal
    /\ \E path \in DOMAIN transcripts \cup {CliPath} :
          LET file == IF path \in DOMAIN transcripts THEN transcripts[path] ELSE <<>>
          IN  \E line \in ExternalLines(file, path[2], WNow) :
                 transcripts' = writeFile(transcripts, path, Append(file, line))
    /\ wclock' = [wclock EXCEPT !.externals = @ + 1]
    /\ lastExport' = NoExport
    /\ prevExport' = NoExport
    /\ UNCHANGED <<indexes, history, exp>>
    /\ UNCHANGED <<skillVars, fetchVars, catalogVars, callVars>>

WriterInit ==
    /\ transcripts = <<>>
    /\ indexes = <<>>
    /\ history = <<>>
    /\ exp = Idle
    /\ wclock = [exports |-> 0, externals |-> 0]
    /\ lastExport = NoExport
    /\ prevExport = NoExport

WriterNext ==
    \/ ExportBegin
    \/ ExportWrite
    \/ ExportHistory
    \/ ExportIndex
    \/ ExternalAppend

\* exports that the exit of the process may cut short
CrashNext ==
    \/ ExportBegin
    \/ ExportWrite
    \/ ExportHistory
    \/ ExportIndex
    \/ Crash

----------------------------------------------------------------------------
(* Update checks *)

\* the output of `git ls-remote <url> HEAD`: short = the first 7 characters of the
\* hash (0 = no output), rest = the characters after them
Hash(short, rest) == [short |-> short, rest |-> rest]

\* stdout.trim().split('\t')[0]?.substring(0, 7)
Substring7(hash) == hash.short

\* entry.version !== skill.source.version, remoteCommit !== skill.source.version
\* (two missing versions are the same value)
VersionNewer(version, stored) == version > stored

VersionDiffers(version, stored) == version # stored

\* env.remote = what ls-remote answers: None = the command fails, else its hash.
\* The result is [raised, value]: every path of the code returns a value.
checkSkillUpdate(skill, catalog, env) ==
    LET false == [raised |-> FALSE, value |-> FALSE]
        return(b) == [raised |-> FALSE, value |-> b]
    IN  IF ~IsSome(skill.source) THEN false
        ELSE LET source == Val(skill.source)
             IN  CASE source.type = "skillssh" ->
                        IF ~IsSome(catalog) THEN false
                        ELSE LET entry == FindEntry(catalog, skill.slug)
                             IN  IF ~IsSome(entry) THEN false
                                 ELSE return(VersionDiffers(Val(entry).version,
                                                            source.version))
                   [] source.type = "git" ->
                        IF source.url = NoUrl THEN false
                        ELSE IF ~IsSome(env.remote) THEN false
                        ELSE LET remoteCommit == Substring7(Val(env.remote))
                             IN  IF remoteCommit = 0 THEN false
                                 ELSE return(VersionDiffers(remoteCommit, source.version))
                   [] OTHER -> false

\* updates.set(skill.slug, hasUpdate)
SetUpdateAll(updates, slug, hasUpdate) == [x \in DOMAIN updates \cup {slug} |-> hasUpdate]

SetUpdate(updates, slug, hasUpdate) ==
    [x \in DOMAIN updates \cup {slug} |-> IF x = slug THEN hasUpdate ELSE updates[x]]

----------------------------------------------------------------------------
(* Skill files as the storage functions read and write them.  Here the body *)
(* of a SKILL.md is spelled out: the metadata of its frontmatter and the    *)
(* text under it.                                                           *)

\* SkillMetadata without the icon: name and description are strings (<<>> = missing
\* or empty), globs and alwaysAllow are lists or None
SkillMetadata(name, description, globs, alwaysAllow) ==
    [name |-> name, description |-> description, globs |-> globs,
     alwaysAllow |-> alwaysAllow]

\* the text '---\n<yaml of data>\n---\n<content>': matter() parses it, and
\* parseSkillFile accepts it when data has a name and a description
SkillMd(data, content) ==
    [fm |-> TRUE, yaml |-> TRUE, valid |-> data.name # <<>> /\ data.description # <<>>,
     body |-> [metadata |-> data, content |-> content]]

\* a SKILL.md whose frontmatter is not YAML: matter() throws
BrokenYaml ==
    [fm |-> TRUE, yaml |-> FALSE, valid |-> FALSE,
     body |-> [metadata |-> SkillMetadata(<<>>, <<>>, None, None), content |-> <<>>]]

\* gray-matter's stringify ends the text with newline(str): str, with '\n' added
\* when str does not end in one
newline(str) ==
    IF str # <<>> /\ str[Len(str)] = "\n" THEN str ELSE Append(str, "\n")

\* matter.stringify(content, frontmatter): the frontmatter block, then
\* newline(content); read back, the text under the block is newline(content)
matterStringify(content, frontmatter) == SkillMd(frontmatter, newline(content))

\* { name, description, ...(globs && { globs }), ...(alwaysAllow && { alwaysAllow }) }:
\* a list, empty or not, is truthy
Frontmatter(metadata) ==
    SkillMetadata(metadata.name, metadata.description, metadata.globs,
                  metadata.alwaysAllow)

\* .source.json with every field of SkillSource the importers write
SkillSource(type, url, version, installedAt) ==
    [type |-> type, url |-> url, version |-> version, modified |-> FALSE,
     installedAt |-> toISOString(installedAt)]

\* { type: 'local', modified: true, installedAt: new Date().toISOString() }
\* (no url, no version)
LocalSource(t) ==
    [type |-> "local", url |-> NoUrl, version |-> 0, modified |-> TRUE,
     installedAt |-> toISOString(t)]

\* the sidecar replaced whatever it said
resetSource(src, t) == LocalSource(t)

\* the sidecar after an edit: source.modified = true on what JSON.parse gave, or a
\* new local source when there is no sidecar or it does not parse
markModified(src, t) ==
    IF IsSome(src) /\ Val(src) # UnparsableJson
    THEN [Val(src) EXCEPT !.modified = TRUE]
    ELSE LocalSource(t)

\* only the name is looked at
NameGiven(metadata) == metadata.name # <<>>

\* !(!metadata.name || !metadata.description)
RequiredGiven(metadata) == metadata.name # <<>> /\ metadata.description # <<>>

\* updateSkill of the storage module.  The result is [skills, raised, ret]: the
\* directory afterwards, the error thrown ("" = none) and the value returned.
storageUpdateSkill(sk, slug, metadata, content, t) ==
    IF slug \notin DOMAIN sk \/ ~IsSome(sk[slug].md)
    THEN [skills |-> sk, raised |-> "", ret |-> None]
    ELSE IF ~RequiredGiven(metadata)
    THEN [skills |-> sk, raised |-> "Name and description are required", ret |-> None]
    ELSE LET yamlContent == matterStringify(content, Frontmatter(metadata))
             written == [sk EXCEPT ![slug].md = Some(yamlContent)]
             marked == [written EXCEPT ![slug].src = Some(markModified(@, t))]
         IN  [skills |-> marked, raised |-> "", ret |-> loadSkill(marked, slug)]

\* the skills loadSkill gives for the entries of the skills directory (every entry
\* of the model is a directory), as a set: the order is that of readdirSync
loadWorkspaceSkills(sk) ==
    {Val(loadSkill(sk, slug)) : slug \in {x \in DOMAIN sk : IsSome(loadSkill(sk, x))}}

(* Inputs of the storage operations *)

NameN == <<"n">>
NameM == <<"m">>
Descr == <<"d">>
TextC == <<"c">>
GlobG == <<"*", ".", "g">>      \* '*.g'

\* what a user may leave in skills/<slug>/SKILL.md: nothing, text that is not YAML,
\* frontmatter without a name, or a skill
AuthoredFiles ==
    {None, Some(BrokenYaml),
     Some(SkillMd(SkillMetadata(<<>>, Descr, None, None), TextC)),
     Some(SkillMd(SkillMetadata(NameN, Descr, None, None), TextC))}

\* what skills/<slug>/.source.json may hold: nothing, text that is not JSON, or the
\* provenance an importer wrote
AuthoredSources(slug) ==
    {None, Some(UnparsableJson),
     Some(SkillSource("skillssh", Url("zip", slug), 1, 0)),
     Some(SkillSource("skillssh", Url("zip", slug), MaxVer, 0)),
     Some(SkillSource("git", Url("repo", slug), 1, 0)),
     Some(SkillSource("git", NoUrl, 1, 0)),
     Some(SkillSource("zip", NoUrl, 0, 0))}

EditMetadata ==
    {SkillMetadata(NameM, Descr, None, None),
     SkillMetadata(NameM, Descr, Some(<<GlobG>>), Some(<<>>)),
     SkillMetadata(<<>>, Descr, None, None),
     SkillMetadata(NameM, <<>>, Some(<<GlobG>>), None)}

EditContents == {TextC \o <<"\n">>, <<"\n">> \o TextC, <<>>}

\* ls-remote fails, prints nothing, or prints the hash of the remote HEAD
RemoteEnvs ==
    {[remote |-> None], [remote |-> Some(Hash(0, 0))], [remote |-> Some(Hash(1, 1))],
     [remote |-> Some(Hash(1, 2))], [remote |-> Some(Hash(MaxVer, 1))]}

(* The storage operations and the update checks as actions *)

\* Date.now() of the storage calls: later than every authored installedAt
StoreNow == 1 + ops

StoreDone(op) ==
    /\ lastOp' = op
    /\ ops' = ops + 1
    /\ UNCHANGED <<temps, fetchVars, catalogVars, writerVars>>

\* a user writes a skill directory by hand
Author ==
    \E slug \in {NameF, NameG} : \E md \in AuthoredFiles : \E src \in AuthoredSources(slug) :
        /\ Room
        /\ checkAll.pc = "idle"
        /\ skills' = [x \in DOMAIN skills \cup {slug} |->
                         IF x = slug THEN [md |-> md, src |-> src] ELSE skills[x]]
        /\ StoreDone([kind |-> "author", slug |-> slug, pre |-> skills])
        /\ UNCHANGED callVars

Edit ==
    \E slug \in DOMAIN skills \cup {NameG} :
    \E metadata \in EditMetadata : \E content \in EditContents :
        /\ Room
        /\ checkAll.pc = "idle"
        /\ LET r == storageUpdateSkill(skills, slug, metadata, content, StoreNow)
           IN  /\ skills' = r.skills
               /\ StoreDone([kind |-> "edit", slug |-> slug, metadata |-> metadata,
                             content |-> content, pre |-> skills, raised |-> r.raised,
                             ret |-> r.ret, t |-> StoreNow])
        /\ UNCHANGED callVars

Load ==
    \E slug \in DOMAIN skills \cup {NameG} :
        /\ Room
        /\ checkAll.pc = "idle"
        /\ StoreDone([kind |-> "load", slug |-> slug, pre |-> skills,
                      ret |-> loadSkill(skills, slug)])
        /\ UNCHANGED <<skills, callVars>>

LoadAll ==
    /\ Room
    /\ checkAll.pc = "idle"
    /\ StoreDone([kind |-> "loadAll", pre |-> skills, ret |-> loadWorkspaceSkills(skills)])
    /\ UNCHANGED <<skills, callVars>>

CheckUpdate ==
    \E skill \in loadWorkspaceSkills(skills) : \E catalog \in Catalogs :
    \E env \in RemoteEnvs :
        /\ Room
        /\ checkAll.pc = "idle"
        /\ StoreDone([kind |-> "check", skill |-> skill, catalog |-> catalog,
                      env |-> env, pre |-> skills,
                      ret |-> checkSkillUpdate(skill, catalog, env)])
        /\ UNCHANGED <<skills, callVars>>

(* checkAllSkillUpdates: the checks are started together and finish one by one *)

NoCheckAll ==
    [pc |-> "idle", skills |-> {}, catalog |-> None, pending |-> {}, answers |-> <<>>,
     updates |-> <<>>, result |-> None]

\* skills.map(async (skill) => ...) starts a check for every skill of the list
CheckAllBegin ==
    \E catalog \in Catalogs :
        /\ Room
        /\ checkAll.pc = "idle"
        /\ checkAll' = [pc |-> "running", skills |-> loadWorkspaceSkills(skills),
                        catalog |-> catalog, pending |-> loadWorkspaceSkills(skills),
                        answers |-> <<>>, updates |-> <<>>, result |-> None]
        /\ ops' = ops + 1
        /\ UNCHANGED <<skills, temps, lastOp, running, listed, liveVars>>
        /\ UNCHANGED <<fetchVars, catalogVars, writerVars>>

\* one check finishes, whichever, and its callback sets the skill's entry
CheckAllStep ==
    /\ checkAll.pc = "running"
    /\ \E skill \in checkAll.pending : \E env \in RemoteEnvs :
          LET hasUpdate == checkSkillUpdate(skill, checkAll.catalog, env)
          IN  checkAll' = [checkAll EXCEPT
                              !.pending = @ \ {skill},
                              !.answers = [x \in DOMAIN @ \cup {skill.slug} |->
                                              IF x = skill.slug THEN env ELSE @[x]],
                              !.updates = SetUpdate(@, skill.slug, hasUpdate.value)]
    /\ UNCHANGED <<skillVars, running, listed, liveVars>>
    /\ UNCHANGED <<fetchVars, catalogVars, writerVars>>

\* Promise.all has settled: the map is returned
CheckAllReturn ==
    /\ checkAll.pc = "running"
    /\ checkAll.pending = {}
    /\ checkAll' = [checkAll EXCEPT !.pc = "idle", !.result = Some(checkAll.updates)]
    /\ UNCHANGED <<skillVars, running, listed, liveVars>>
    /\ UNCHANGED <<fetchVars, catalogVars, writerVars>>

StoreInit == checkAll = NoCheckAll

StoreNext ==
    \/ Author
    \/ Edit
    \/ Delete
    \/ Load
    \/ LoadAll
    \/ CheckUpdate
    \/ CheckAllBegin
    \/ CheckAllStep
    \/ CheckAllReturn

----------------------------------------------------------------------------
(* ClaudeCodeSessionReader *)

MaxHistory == 3     \* entries of history.jsonl

\* sessionMap: the session ids of the log, in the order of their first entry
RECURSIVE SessionIds(_)
SessionIds(log) ==
    IF log = <<>> THEN <<>>
    ELSE LET before == SessionIds(SubSeq(log, 1, Len(log) - 1))
             id == log[Len(log)].sessionId
         IN  IF \E i \in DOMAIN before : before[i] = id THEN before ELSE Append(before, id)

RECURSIVE InsertByTimestamp(_, _)
InsertByTimestamp(sorted, e) ==
    IF sorted = <<>> THEN <<e>>
    ELSE IF Head(sorted).timestamp <= e.timestamp
    THEN <<Head(sorted)>> \o InsertByTimestamp(Tail(sorted), e)
    ELSE <<e>> \o sorted

\* the entries as the log has them
LogOrder(entries) == entries

\* entries.sort((a, b) => a.timestamp - b.timestamp)
RECURSIVE SortByTimestamp(_)
SortByTimestamp(entries) ==
    IF entries = <<>> THEN <<>>
    ELSE InsertByTimestamp(SortByTimestamp(SubSeq(entries, 1, Len(entries) - 1)),
                           entries[Len(entries)])

\* JSON.parse of a line that is not JSON throws, and the catch returns
\* { messageCount: 0 }; the token totals are sums over message.usage, which no line
\* of the model carries
readTranscriptMetadata(file) ==
    IF \E i \in DOMAIN file : file[i].type = "malformed"
    THEN [messageCount |-> 0, tokenUsage |-> None]
    ELSE [messageCount |-> Len(getMessageLines(file)), tokenUsage |-> Some(0)]

SessionMetadata(sessionId, entries, files) ==
    LET transcriptPath == findTranscriptFile(files, sessionId)
        transcriptData == IF IsSome(transcriptPath)
                          THEN readTranscriptMetadata(files[Val(transcriptPath)])
                          ELSE [messageCount |-> Len(entries), tokenUsage |-> None]
    IN  [sessionId |-> sessionId, project |-> entries[1].project,
         createdAt |-> entries[1].timestamp, lastUsedAt |-> entries[Len(entries)].timestamp,
         messageCount |-> transcriptData.messageCount, preview |-> entries[1].display,
         transcriptPath |-> transcriptPath, tokenUsage |-> transcriptData.tokenUsage]

RECURSIVE InsertByLastUsed(_, _)
InsertByLastUsed(sorted, s) ==
    IF sorted = <<>> THEN <<s>>
    ELSE IF Head(sorted).lastUsedAt >= s.lastUsedAt
    THEN <<Head(sorted)>> \o InsertByLastUsed(Tail(sorted), s)
    ELSE <<s>> \o sorted

\* sessions.sort((a, b) => b.lastUsedAt - a.lastUsedAt)
RECURSIVE SortByLastUsed(_)
SortByLastUsed(sessions) ==
    IF sessions = <<>> THEN <<>>
    ELSE InsertByLastUsed(SortByLastUsed(SubSeq(sessions, 1, Len(sessions) - 1)),
                          sessions[Len(sessions)])

\* log = the entries of history.jsonl (<<>> also when the file is missing), every
\* line of it JSON; files = the transcripts under projects/
listSessions(log, files) ==
    LET ids == SessionIds(log)
        sessions == [i \in DOMAIN ids |->
                        SessionMetadata(ids[i],
                            SortByTimestamp(SelectSeq(log, LAMBDA e : e.sessionId = ids[i])),
                            files)]
    IN  SortByLastUsed(sessions)

(* The reading as an action, and the CLI's writes to history.jsonl *)

\* the timestamps of the CLI's entries: its clock is not the exporter's
CliTimes == {1, 9}

\* the CLI logs a prompt of a session, one with a transcript or one without
CliHistory ==
    /\ exp.pc = "idle"
    /\ Len(history) < MaxHistory
    /\ \E id \in {p[2] : p \in DOMAIN transcripts} \cup {CliSession} : \E t \in CliTimes :
          history' = Append(history, HistoryEntry(id, WorkW, <<"h">>, t))
    /\ UNCHANGED <<transcripts, indexes, exp, wclock, lastExport, prevExport>>
    /\ UNCHANGED <<skillVars, fetchVars, catalogVars, callVars>>

NotListed == [done |-> FALSE, log |-> <<>>, files |-> <<>>, result |-> <<>>]

ListSessions ==
    /\ exp.pc = "idle"
    /\ listed' = [done |-> TRUE, log |-> history, files |-> transcripts,
                  result |-> listSessions(history, transcripts)]
    /\ UNCHANGED <<checkAll, running, liveVars>>
    /\ UNCHANGED <<skillVars, fetchVars, catalogVars, writerVars>>

\* exports of unnamed sessions that have a working directory and a message
ReaderExportBegin ==
    /\ ExportBegin
    /\ exp'.session.name = None
    /\ exp'.session.messages \in {<<MsgUser>>, <<MsgUser, MsgThinking>>}
    /\ IsSome(exp'.session.workingDirectory)

ReaderInit == listed = NotListed

\* the files are written by the exporter and the CLI, then listSessions reads them
ReaderNext ==
    \/ ~listed.done /\ ReaderExportBegin
    \/ ~listed.done /\ ExportWrite
    \/ ~listed.done /\ ExportHistory
    \/ ~listed.done /\ ExportIndex
    \/ ~listed.done /\ ExternalAppend
    \/ ~listed.done /\ CliHistory
    \/ ListSessions

----------------------------------------------------------------------------
(* Imports whose calls overlap.  importSkillFromGit suspends at its two awaits *)
(* (git clone, git rev-parse); between them it runs without interruption, as   *)
(* every importer without an await does from its call to its return.  The      *)
(* position "resolved" lies between resolveSlugConflict and the copy, where    *)
(* the code has no await.                                                      *)

Tasks == {1, 2}

NoTask ==
    [pc |-> "idle", url |-> NoUrl, env |-> NoEnv, temp |-> 0, slug |-> <<>>,
     overlap |-> FALSE, ok |-> FALSE]

\* every statement is a point where another call may run
SuspendedAnywhere(pc) == TRUE

\* a call that is not running is at `await execAsync(...)`, has not begun, or has
\* returned
Suspended(pc) == pc \in {"idle", "cloning", "revparse", "done"}

\* call i may run: the event loop runs one call at a time, up to its next await
CanRun(i) == \A j \in Tasks \ {i} : Suspended(running[j].pc)

InFlight(pc) == pc \in {"cloning", "resolved", "revparse"}

RaceFrame ==
    /\ UNCHANGED <<lastOp, ops, checkAll, listed, liveVars>>
    /\ UNCHANGED <<fetchVars, catalogVars, writerVars>>

\* the call begins: the URL is validated, the scratch directory made, git clone
\* started
GitBegin ==
    \E i \in Tasks : \E url \in GitUrls : \E env \in GitEnvs(url) :
        /\ running[i].pc = "idle"
        /\ CanRun(i)
        /\ IF ~IsValidGitUrl(url)
           THEN /\ running' = [running EXCEPT ![i] = [NoTask EXCEPT !.pc = "done", !.url = url]]
                /\ UNCHANGED temps
           ELSE /\ running' = [running EXCEPT ![i] =
                                  [NoTask EXCEPT !.pc = "cloning", !.url = url, !.env = env,
                                                 !.temp = FreshTemp(temps)]]
                /\ temps' = temps \cup {FreshTemp(temps)}
        /\ UNCHANGED skills
        /\ RaceFrame

\* git clone has ended: the clone is validated and the slug resolved
GitCloned ==
    \E i \in Tasks :
        /\ running[i].pc = "cloning"
        /\ CanRun(i)
        /\ LET task == running[i]
           IN  IF ~task.env.clone \/ ~IsSome(task.env.root)
               THEN /\ running' = [running EXCEPT ![i].pc = "done"]
                    /\ temps' = temps \ {task.temp}
               ELSE /\ running' = [running EXCEPT
                          ![i].pc = "resolved",
                          ![i].slug = resolveSlugConflict(skills, sanitizeSlug(RepoName(task.url))),
                          ![i].overlap = \E j \in Tasks \ {i} : InFlight(running[j].pc)]
                    /\ UNCHANGED temps
        /\ UNCHANGED skills
        /\ RaceFrame

\* the clone is copied into skills/<slug>, and git rev-parse started
GitCopied ==
    \E i \in Tasks :
        /\ running[i].pc = "resolved"
        /\ CanRun(i)
        /\ skills' = copyDirectory(skills, running[i].slug, Val(running[i].env.root))
        /\ running' = [running EXCEPT ![i].pc = "revparse"]
        /\ UNCHANGED temps
        /\ RaceFrame

\* git rev-parse has ended: the sidecar is saved, the skill loaded, the scratch
\* directory removed
GitSaved ==
    \E i \in Tasks :
        /\ running[i].pc = "revparse"
        /\ CanRun(i)
        /\ LET task == running[i]
               saved == saveSourceMetadata(skills, task.slug,
                                           Source("git", task.url, task.env.rev))
           IN  /\ skills' = saved
               /\ running' = [running EXCEPT ![i].pc = "done",
                                             ![i].ok = IsSome(loadSkill(saved, task.slug))]
               /\ temps' = temps \ {task.temp}
        /\ RaceFrame

\* a zip import, one in a behaviour, runs from its call to its return while the
\* other calls wait
ZipBetween ==
    /\ ops = 0
    /\ \A j \in Tasks : Suspended(running[j].pc)
    /\ ImportZip

RaceInit == running = [i \in Tasks |-> NoTask]

RaceNext ==
    \/ GitBegin
    \/ GitCloned
    \/ GitCopied
    \/ GitSaved
    \/ ZipBetween

----------------------------------------------------------------------------
(* One repository imported more than once, with deletes and updates between *)
(* the imports: the skills operations of SpecSkills on a single source,     *)
(* followed for one operation more.                                         *)

MaxReinstall == 4   \* skills operations in one run of SpecReinstall

RepoF == Url("repo", NameF)

\* importSkillFromGit of the repository
RepoImport ==
    /\ ops < MaxReinstall
    /\ \E env \in GitEnvs(RepoF) :
          Record("git", <<RepoF, env>>, importSkillFromGit(St, RepoF, env), <<>>, None)

\* deleteSkill of an installed skill
RepoDelete ==
    \E slug \in DOMAIN skills :
        /\ ops < MaxReinstall
        /\ Record("delete", <<slug>>,
               [Fail([St EXCEPT !.skills = deleteSkill(@, slug)], "") EXCEPT !.ok = TRUE],
               slug, None)

\* updateSkill of an installed skill, as the caller loaded it
RepoUpdate ==
    \E slug \in DOMAIN skills : \E catalog \in Catalogs :
        /\ ops < MaxReinstall
        /\ IsSome(loadSkill(skills, slug))
        /\ LET skill == Val(loadSkill(skills, slug))
           IN  \E env \in UpdateEnvs(skill, catalog) :
                  Record("update", <<catalog, env>>, updateSkill(St, skill, catalog, env),
                         slug, skill.source)

\* what a skill directory written by hand may hold as .source.json: nothing, text
\* that is not JSON, or provenance of any type, with or without a url
HandSources ==
    {None, Some(UnparsableJson),
     Some(Source("git", NoUrl, 1)),
     Some(Source("zip", Url("zip", NameG), 0)),
     Some(Source("skillssh", Url("zip", NameG), 1))}

\* a user writes the skill directory g by hand, with a SKILL.md that loads
HandWritten ==
    \E src \in HandSources :
        /\ ops < MaxReinstall
        /\ NameG \notin DOMAIN skills
        /\ Record("author", <<src>>,
               [Fail([St EXCEPT !.skills =
                         [x \in DOMAIN skills \cup {NameG} |->
                             IF x = NameG THEN [md |-> Some(GoodMd(1)), src |-> src]
                             ELSE skills[x]]], "") EXCEPT !.ok = TRUE],
               NameG, None)

ReinstallNext ==
    \/ HandWritten
    \/ RepoImport
    \/ RepoDelete
    \/ RepoUpdate

----------------------------------------------------------------------------
(* Git imports with and without a branch argument, and the update check,   *)
(* against one remote repository.  The remote is what the git commands of  *)
(* a call see: the commit of its default branch, which is what HEAD names, *)
(* and the commit of its branch dev.                                       *)

MaxRemoteOps == 4   \* operations in one run of SpecRemote

Remote(head, dev) == [head |-> head, dev |-> dev]

\* the branches at one commit, or dev ahead of the default branch
Remotes == {Remote(Hash(1, 1), Hash(1, 1)), Remote(Hash(1, 1), Hash(MaxVer, 1)),
            Remote(Hash(MaxVer, 1), Hash(MaxVer, 1))}

Branches == {None, Some("dev")}

\* git clone [-b branch] --depth 1: the commit that is checked out, the one
\* `git rev-parse HEAD` prints in the clone
clone(remote, branch) == IF IsSome(branch) THEN remote.dev ELSE remote.head

\* what the commands of importSkillFromGit answer for the remote
CloneEnv(remote, branch) ==
    [NoEnv EXCEPT !.clone = TRUE, !.root = Some(GoodMd(1)),
                  !.rev = Substring7(clone(remote, branch))]

\* git ls-remote <url> HEAD
lsRemoteHead(remote) == [remote |-> Some(remote.head)]

\* importSkillFromGit(workspaceRoot, gitUrl, branch)
BranchImport ==
    \E remote \in Remotes : \E branch \in Branches :
        /\ ops < MaxRemoteOps
        /\ Record("git", <<RepoF, branch, remote>>,
                  importSkillFromGit(St, RepoF, CloneEnv(remote, branch)), <<>>, None)

\* checkSkillUpdate(skill) of an installed skill, as the caller loaded it
RemoteCheck ==
    \E slug \in DOMAIN skills : \E remote \in Remotes :
        /\ ops < MaxRemoteOps
        /\ lastOp.kind = "git"
        /\ IsSome(loadSkill(skills, slug))
        /\ lastOp' = [kind |-> "check", skill |-> Val(loadSkill(skills, slug)),
                      remote |-> remote, after |-> lastOp,
                      ret |-> checkSkillUpdate(Val(loadSkill(skills, slug)), None,
                                               lsRemoteHead(remote))]
        /\ ops' = ops + 1
        /\ UNCHANGED <<skills, temps, fetchVars, catalogVars, writerVars, callVars>>

RemoteNext ==
    \/ BranchImport
    \/ RemoteCheck

----------------------------------------------------------------------------
(* Two calls of exportSession for one session, in flight at the same time.  *)
(* A call runs from one await to the next in one step: it awaits            *)
(* findTranscriptFile, then on the existing-transcript path                 *)
(* readTranscriptEntries, appendTranscriptLines and updateSessionsIndex, and *)
(* on the other path writeFile, updateHistory and updateSessionsIndex.      *)

NoPair == [started |-> FALSE]

Calls == 1..2

BothDone == pair.started /\ \A c \in Calls : pair.call[c].pc = "done"

\* the entries of the history log that carry the session id
HistoryOf(log, sessionId) == SelectSeq(log, LAMBDA e : e.sessionId = sessionId)

\* both calls are made, with the same session and the same projectName; the
\* session carries an sdkSessionId, so that both calls use the same session id
ConcurrentBegin ==
    /\ ~pair.started
    /\ exp.pc = "idle"
    /\ \E sdk \in SdkSessionIds(transcripts) \ {None} : \E name \in SessionNames :
       \E messages \in MessageLists : \E project \in Projects :
          LET session == StoredSession(sdk, name, messages, project.workingDirectory)
          IN  pair' = [started |-> TRUE, session |-> session, id |-> Val(sdk),
                       projectName |-> project.projectName,
                       workDir |-> resolveWorkDir(session),
                       customTitle |-> normalizeCustomTitle(name),
                       historyBefore |-> Len(HistoryOf(history, Val(sdk))),
                       t |-> WNow,
                       call |-> [c \in Calls |-> [pc |-> "find"]]]
    /\ UNCHANGED <<watch, timerq, wtime, hfile, wlog>>
    /\ UNCHANGED <<checkAll, running, listed>>
    /\ UNCHANGED <<skillVars, fetchVars, catalogVars, writerVars>>

ConcurrentFrame ==
    /\ UNCHANGED <<watch, timerq, wtime, hfile, wlog>>
    /\ UNCHANGED <<checkAll, running, listed>>
    /\ UNCHANGED <<skillVars, fetchVars, catalogVars>>
    /\ UNCHANGED <<exp, wclock, lastExport, prevExport>>

\* findTranscriptFile returns; when no transcript is found the call builds the
\* lines of a new transcript and goes on to write it
CallFind(c) ==
    /\ pair.started
    /\ pair.call[c].pc = "find"
    /\ LET found == findTranscriptFile(transcripts, pair.id)
           dir == IF IsSome(pair.projectName) THEN Val(pair.projectName)
                  ELSE extractProjectName(pair.workDir)
       IN  pair' = [pair EXCEPT !.call[c] =
                 IF IsSome(found)
                 THEN [pc |-> "read", existing |-> TRUE, path |-> Val(found),
                       entries |-> <<>>, newLines |-> <<>>, metadataLines |-> <<>>]
                 ELSE [pc |-> "write", existing |-> FALSE,
                       path |-> TranscriptPath(dir, pair.id), entries |-> <<>>,
                       newLines |->
                           buildTranscriptLines(pair.session, pair.id, pair.workDir,
                                                detectGitBranch(pair.workDir), None,
                                                TRUE, None, pair.t),
                       metadataLines |->
                           IF IsSome(pair.customTitle)
                           THEN <<buildCustomTitleLine(pair.id, Val(pair.customTitle))>>
                           ELSE <<>>]]
    /\ UNCHANGED <<transcripts, indexes, history>>
    /\ ConcurrentFrame

\* readTranscriptEntries returns; the call builds the lines the file lacks
CallRead(c) ==
    /\ pair.started
    /\ pair.call[c].pc = "read"
    /\ LET entries == readTranscriptEntries(transcripts[pair.call[c].path])
           newLines == buildTranscriptLines(pair.session, pair.id, pair.workDir,
                                            detectGitBranch(pair.workDir),
                                            Some(collectExistingUuids(entries)), FALSE,
                                            getLastMessageUuid(entries), pair.t)
           metadataLines ==
               IF IsSome(pair.customTitle)
                  /\ pair.customTitle # getLastCustomTitle(entries)
               THEN <<buildCustomTitleLine(pair.id, Val(pair.customTitle))>>
               ELSE <<>>
       IN  pair' = [pair EXCEPT !.call[c] =
                 [@ EXCEPT !.pc = IF newLines \o metadataLines # <<>> THEN "append"
                                  ELSE "index",
                           !.entries = entries, !.newLines = newLines,
                           !.metadataLines = metadataLines]]
    /\ UNCHANGED <<transcripts, indexes, history>>
    /\ ConcurrentFrame

\* appendFile returns
CallAppend(c) ==
    /\ pair.started
    /\ pair.call[c].pc = "append"
    /\ LET lines == pair.call[c].newLines \o pair.call[c].metadataLines
       IN  /\ transcripts' = [transcripts EXCEPT
                                 ![pair.call[c].path] = appendTranscriptLines(@, lines)]
           /\ pair' = [pair EXCEPT !.call[c] =
                          [@ EXCEPT !.pc = "index", !.entries = @ \o lines]]
    /\ UNCHANGED <<indexes, history>>
    /\ ConcurrentFrame

\* writeFile returns
CallWrite(c) ==
    /\ pair.started
    /\ pair.call[c].pc = "write"
    /\ transcripts' = writeFile(transcripts, pair.call[c].path,
                                pair.call[c].newLines \o pair.call[c].metadataLines)
    /\ pair' = [pair EXCEPT !.call[c].pc = "history"]
    /\ UNCHANGED <<indexes, history>>
    /\ ConcurrentFrame

\* updateHistory returns
CallHistory(c) ==
    /\ pair.started
    /\ pair.call[c].pc = "history"
    /\ history' = updateHistory(history, pair.id, pair.workDir,
                                IF IsSome(pair.session.name) /\ Val(pair.session.name) # <<>>
                                THEN Val(pair.session.name) ELSE ExportedSession,
                                pair.t)
    /\ pair' = [pair EXCEPT !.call[c].pc = "index"]
    /\ UNCHANGED <<transcripts, indexes>>
    /\ ConcurrentFrame

\* updateSessionsIndex returns, and with it the call
CallIndex(c) ==
    /\ pair.started
    /\ pair.call[c].pc = "index"
    /\ LET call == pair.call[c]
           transcriptLines == IF call.existing THEN getMessageLines(call.entries)
                              ELSE call.newLines
           projectPath == IF call.existing /\ IsSome(extractProjectPath(call.entries))
                          THEN Val(extractProjectPath(call.entries)) ELSE pair.workDir
       IN  indexes' = updateSessionsIndex(indexes, call.path[1], pair.id, call.path,
                                          projectPath, pair.session, transcriptLines,
                                          pair.customTitle)
    /\ pair' = [pair EXCEPT !.call[c].pc = "done"]
    /\ UNCHANGED <<transcripts, history>>
    /\ ConcurrentFrame

PairInit == pair = NoPair

\* at most one export that runs alone, of a session without a name that holds one
\* message, and then the two calls
ConcurrentNext ==
    \/ /\ ExportBegin
       /\ wclock.exports = 0
       /\ ~pair.started
       /\ exp'.session.name = None
       /\ exp'.session.messages = <<MsgUser>>
    \/ ExportWrite
    \/ ExportHistory
    \/ ExportIndex
    \/ ConcurrentBegin
    \/ \E c \in Calls : CallFind(c)
    \/ \E c \in Calls : CallRead(c)
    \/ \E c \in Calls : CallAppend(c)
    \/ \E c \in Calls : CallWrite(c)
    \/ \E c \in Calls : CallHistory(c)
    \/ \E c \in Calls : CallIndex(c)
----------------------------------------------------------------------------
(* ClaudeCodeSessionWatcher.  Time is counted in units of 250 ms.  The      *)
(* runtime's timers are a set; a timer that is set fires at or after its    *)
(* due time, unless clearTimeout removed it before.                         *)

Debounce == 2       \* 500 ms
MaxWTime == 4       \* the last instant of the watcher's clock
MaxNotes == 3       \* calls of emitDebounced from change events in one run
MaxStarts == 2      \* calls of start() in one run
MaxStops == 1       \* calls of stop() in one run
MaxWrites == 3      \* writes to history.jsonl in one run

SessionA == "a"
SessionB == "b"
WatchedSessions == {SessionA, SessionB}

\* the callbacks that may be registered: one raises whenever it is called
CbRaises == "raises"
CbKeeps == "keeps"
WatcherCallbacks == {CbRaises, CbKeeps}

NoWatch ==
    [watchers |-> [history |-> 0, projects |-> 0], callbacks |-> <<>>,
     debounceTimers |-> <<>>, lastHistorySize |-> 0]

NoWatchLog == [notes |-> <<>>, events |-> <<>>, appended |-> <<>>, read |-> <<>>,
               stops |-> 0, starts |-> 0, writes |-> 0]

\* what the watcher's methods work on: the object, the runtime's timers, the log
WatchState == [watch |-> watch, timerq |-> timerq, log |-> wlog]

Timer(handle, sessionId, type, due) ==
    [handle |-> handle, sessionId |-> sessionId, type |-> type, due |-> due]

clearTimeout(q, handle) == {tm \in q : tm.handle # handle}

\* Map.set and Map.delete on debounceTimers
MapSet(map, key, value) ==
    [k \in DOMAIN map \cup {key} |-> IF k = key THEN value ELSE map[k]]
MapDelete(map, key) == [k \in DOMAIN map \ {key} |-> map[k]]

\* an emitDebounced that sets its timer and leaves the timer it replaces running
emitDebouncedNoClear(st, sessionId, type, t) ==
    LET handle == Len(st.log.notes) + 1
    IN  [st EXCEPT
            !.timerq = @ \cup {Timer(handle, sessionId, type, t + Debounce)},
            !.watch.debounceTimers = MapSet(@, sessionId, handle),
            !.log.notes = Append(@, [sessionId |-> sessionId, at |-> t,
                                     stops |-> st.log.stops])]

\* the timer's handle is the number of the notification that set it
emitDebounced(st, sessionId, type, t) ==
    LET handle == Len(st.log.notes) + 1
        cleared == IF sessionId \in DOMAIN st.watch.debounceTimers
                   THEN clearTimeout(st.timerq, st.watch.debounceTimers[sessionId])
                   ELSE st.timerq
    IN  [st EXCEPT
            !.timerq = cleared \cup {Timer(handle, sessionId, type, t + Debounce)},
            !.watch.debounceTimers = MapSet(@, sessionId, handle),
            !.log.notes = Append(@, [sessionId |-> sessionId, at |-> t,
                                     stops |-> st.log.stops])]

\* the callbacks that emit calls with the event, in order; the error of a
\* callback is caught and logged
RECURSIVE emit(_, _)
emit(callbacks, event) ==
    IF callbacks = <<>> THEN <<>>
    ELSE <<Head(callbacks)>> \o emit(Tail(callbacks), event)

\* a file the projects watcher reports: <sessionId>.jsonl, a subagent's
\* transcript subagents/agent-<hash>.jsonl, or a file that is not a transcript
FileName(base, subagents, jsonl) == [base |-> base, subagents |-> subagents, jsonl |-> jsonl]

FileNames ==
    {FileName(SessionA, FALSE, TRUE), FileName(SessionB, FALSE, TRUE),
     FileName("agent-1", TRUE, TRUE), FileName("sessions-index", FALSE, FALSE)}

startsWithAgent(base) == base = "agent-1"

\* the callback of the projects watcher and onTranscriptChange
onTranscriptChange(st, filename, t) ==
    IF ~filename.jsonl THEN st
    ELSE IF startsWithAgent(filename.base) \/ filename.subagents THEN st
    ELSE emitDebounced(st, filename.base, "session-updated", t)

RECURSIVE TranscriptHandlers(_, _, _, _)
TranscriptHandlers(n, st, filename, t) ==
    IF n = 0 THEN st
    ELSE TranscriptHandlers(n - 1, onTranscriptChange(st, filename, t), filename, t)

(* history.jsonl, byte by byte: the entry of a session is the line {<id>} *)

HistoryLine(sessionId) == <<"{", sessionId, "}">>
HistoryBytes(sessionId) == HistoryLine(sessionId) \o <<"\n">>

\* newContent.split('\n')
RECURSIVE SplitLines(_, _)
SplitLines(bytes, line) ==
    IF bytes = <<>> THEN <<line>>
    ELSE IF Head(bytes) = "\n" THEN <<line>> \o SplitLines(Tail(bytes), <<>>)
    ELSE SplitLines(Tail(bytes), Append(line, Head(bytes)))

\* JSON.parse(line).sessionId, or None when the line does not parse
ParseHistoryLine(line) ==
    IF Len(line) = 3 /\ line[1] = "{" /\ line[3] = "}" /\ line[2] \in WatchedSessions
    THEN Some(line[2]) ELSE None

RECURSIVE EmitForLines(_, _, _)
EmitForLines(st, lines, t) ==
    IF lines = <<>> THEN st
    ELSE LET entry == ParseHistoryLine(Head(lines))
         IN  EmitForLines(IF IsSome(entry)
                          THEN [emitDebounced(st, Val(entry), "session-updated", t)
                                   EXCEPT !.log.read = Append(@, Val(entry))]
                          ELSE st,
                          Tail(lines), t)

\* file.exists FALSE: statSync throws and the error is logged
onHistoryChange(st, file, t) ==
    IF ~file.exists THEN st
    ELSE LET currentSize == Len(file.bytes)
             last == st.watch.lastHistorySize
         IN  IF currentSize > last
             THEN LET newContent == SubSeq(file.bytes, last + 1, currentSize)
                      newLines == SelectSeq(SplitLines(newContent, <<>>),
                                            LAMBDA line : line # <<>>)
                  IN  [EmitForLines(st, newLines, t)
                          EXCEPT !.watch.lastHistorySize = currentSize]
             ELSE st

RECURSIVE HistoryHandlers(_, _, _, _)
HistoryHandlers(n, st, file, t) ==
    IF n = 0 THEN st
    ELSE HistoryHandlers(n - 1, onHistoryChange(st, file, t), file, t)

\* the projects directory exists
start(st, file) ==
    [st EXCEPT
        !.watch.lastHistorySize = IF file.exists THEN Len(file.bytes) ELSE @,
        !.watch.watchers.history = IF file.exists THEN @ + 1 ELSE @,
        !.watch.watchers.projects = @ + 1,
        !.log.starts = @ + 1]

\* a stop that closes the fs watchers and leaves the timers running
stopWatchersOnly(st) ==
    [st EXCEPT
        !.watch.watchers = [history |-> 0, projects |-> 0],
        !.watch.debounceTimers = <<>>,
        !.log.stops = @ + 1]

stop(st) ==
    [st EXCEPT
        !.watch.watchers = [history |-> 0, projects |-> 0],
        !.timerq = {tm \in @ :
                       \A k \in DOMAIN st.watch.debounceTimers :
                           st.watch.debounceTimers[k] # tm.handle},
        !.watch.debounceTimers = <<>>,
        !.log.stops = @ + 1]

WatchFrame ==
    /\ UNCHANGED pair
    /\ UNCHANGED <<checkAll, running, listed>>
    /\ UNCHANGED <<skillVars, fetchVars, catalogVars, writerVars>>

Commit(st) ==
    /\ watch' = st.watch
    /\ timerq' = st.timerq
    /\ wlog' = st.log

OnChange ==
    /\ \E callback \in WatcherCallbacks :
          /\ \A i \in DOMAIN watch.callbacks : watch.callbacks[i] # callback
          /\ watch' = [watch EXCEPT !.callbacks = Append(@, callback)]
    /\ UNCHANGED <<timerq, wtime, hfile, wlog>>
    /\ WatchFrame

Start ==
    /\ wlog.starts < MaxStarts
    /\ Commit(start(WatchState, hfile))
    /\ UNCHANGED <<wtime, hfile>>
    /\ WatchFrame

\* the fs watchers are closed: a change event that was waiting is dropped
Stop ==
    /\ wlog.stops < MaxStops
    /\ Commit(stop(WatchState))
    /\ hfile' = [hfile EXCEPT !.changed = FALSE]
    /\ UNCHANGED wtime
    /\ WatchFrame

\* a file under the projects directory changes: every projects watcher calls its
\* callback
TranscriptChange ==
    /\ watch.watchers.projects > 0
    /\ Len(wlog.notes) < MaxNotes
    /\ wtime + Debounce <= MaxWTime
    /\ \E filename \in FileNames :
          Commit(TranscriptHandlers(watch.watchers.projects, WatchState, filename, wtime))
    /\ UNCHANGED <<wtime, hfile>>
    /\ WatchFrame

\* a timer that is due runs: emit, then debounceTimers.delete(sessionId)
TimerFires ==
    /\ \E tm \in timerq :
          /\ tm.due <= wtime
          /\ timerq' = timerq \ {tm}
          /\ watch' = [watch EXCEPT !.debounceTimers = MapDelete(@, tm.sessionId)]
          /\ wlog' = [wlog EXCEPT !.events =
                         Append(@, [note |-> tm.handle, sessionId |-> tm.sessionId,
                                    type |-> tm.type, at |-> wtime,
                                    stops |-> wlog.stops,
                                    registered |-> watch.callbacks,
                                    to |-> emit(watch.callbacks,
                                                [type |-> tm.type,
                                                 sessionId |-> tm.sessionId,
                                                 timestamp |-> wtime])])]
    /\ UNCHANGED <<wtime, hfile>>
    /\ WatchFrame

\* 250 ms pass
WTick ==
    /\ wtime < MaxWTime
    /\ wtime' = wtime + 1
    /\ UNCHANGED <<watch, timerq, hfile, wlog>>
    /\ WatchFrame

(* history.jsonl and what is written to it while the watcher runs *)

NoHistoryFile == [exists |-> FALSE, bytes |-> <<>>, changed |-> FALSE, rest |-> <<>>]

Watching == watch.watchers.history > 0

\* an entry is appended with one write
HistoryAppend ==
    /\ wlog.writes < MaxWrites
    /\ hfile.rest = <<>>
    /\ \E sessionId \in WatchedSessions :
          /\ hfile' = [hfile EXCEPT !.exists = TRUE, !.bytes = @ \o HistoryBytes(sessionId),
                                    !.changed = Watching]
          /\ wlog' = [wlog EXCEPT !.writes = @ + 1,
                                  !.appended = IF Watching THEN Append(@, sessionId) ELSE @]
    /\ UNCHANGED <<watch, timerq, wtime>>
    /\ WatchFrame

\* the first of the two writes that append an entry
HistoryAppendFirst ==
    /\ wlog.writes < MaxWrites - 1
    /\ hfile.rest = <<>>
    /\ \E sessionId \in WatchedSessions :
          /\ hfile' = [hfile EXCEPT !.exists = TRUE, !.bytes = @ \o <<"{", sessionId>>,
                                    !.changed = Watching, !.rest = <<"}", "\n">>]
          /\ wlog' = [wlog EXCEPT !.writes = @ + 1,
                                  !.appended = IF Watching THEN Append(@, sessionId) ELSE @]
    /\ UNCHANGED <<watch, timerq, wtime>>
    /\ WatchFrame

\* the second of them
HistoryAppendRest ==
    /\ hfile.rest # <<>>
    /\ hfile' = [hfile EXCEPT !.bytes = @ \o hfile.rest, !.changed = Watching,
                              !.rest = <<>>]
    /\ wlog' = [wlog EXCEPT !.writes = @ + 1]
    /\ UNCHANGED <<watch, timerq, wtime>>
    /\ WatchFrame

\* the file is emptied
HistoryTruncate ==
    /\ wlog.writes < MaxWrites
    /\ hfile.rest = <<>>
    /\ hfile.bytes # <<>>
    /\ hfile' = [hfile EXCEPT !.bytes = <<>>, !.changed = Watching]
    /\ wlog' = [wlog EXCEPT !.writes = @ + 1]
    /\ UNCHANGED <<watch, timerq, wtime>>
    /\ WatchFrame

\* the 'change' event of the history watchers is delivered: each watcher's
\* callback runs onHistoryChange
HistoryChange ==
    /\ hfile.changed
    /\ Watching
    /\ Commit(HistoryHandlers(watch.watchers.history, WatchState, hfile, wtime))
    /\ hfile' = [hfile EXCEPT !.changed = FALSE]
    /\ UNCHANGED wtime
    /\ WatchFrame

WatcherInit ==
    /\ watch = NoWatch
    /\ timerq = {}
    /\ wtime = 0
    /\ hfile = NoHistoryFile
    /\ wlog = NoWatchLog

WatcherNext ==
    \/ OnChange
    \/ Start
    \/ Stop
    \/ TranscriptChange
    \/ TimerFires
    \/ WTick

HistoryWatchNext ==
    \/ Start
    \/ HistoryAppend
    \/ HistoryAppendFirst
    \/ HistoryAppendRest
    \/ HistoryTruncate
    \/ HistoryChange
----------------------------------------------------------------------------
(* The specifications *)

Init ==
    /\ SkillsInit
    /\ FetchInit
    /\ CatalogInit
    /\ WriterInit
    /\ StoreInit
    /\ RaceInit
    /\ ReaderInit
    /\ PairInit
    /\ WatcherInit

SpecSkills == Init /\ [][SkillsNext]_vars

SpecFetch == Init /\ [][FetchNext]_vars

SpecCatalog == Init /\ [][CatalogNext]_vars

SpecWriter == Init /\ [][WriterNext]_vars

SpecStore == Init /\ [][StoreNext]_vars

SpecReader == Init /\ [][ReaderNext]_vars

SpecRace == Init /\ [][RaceNext]_vars

SpecCrash == Init /\ [][CrashNext]_vars

SpecReinstall == Init /\ [][ReinstallNext]_vars

SpecRemote == Init /\ [][RemoteNext]_vars

SpecConcurrent == Init /\ [][ConcurrentNext]_vars

SpecWatcher == Init /\ [][WatcherNext]_vars

\* the event loop runs the timers that are due, and time passes
SpecWatcherLive == Init /\ [][WatcherNext]_vars /\ WF_vars(TimerFires) /\ WF_vars(WTick)

SpecHistoryWatch == Init /\ [][HistoryWatchNext]_vars
----------------------------------------------------------------------------
(* Claims about imports and updates *)

ImportKinds == {"zip", "folder", "file", "git"}

Suffixed(base, k) == base \o <<"-">> \o DecStr(k)

\* slug is base when base is free in sk, and otherwise base-k for the least k >= 1
\* such that base-k is free
LeastFree(sk, base, slug) ==
    LET inst == listSkillSlugs(sk)
    IN  \/ slug = base /\ base \notin inst
        \/ /\ base \in inst
           /\ \E k \in 1..(Cardinality(inst) + 1) :
                 /\ slug = Suffixed(base, k)
                 /\ slug \notin inst
                 /\ \A j \in 1..(k - 1) : Suffixed(base, j) \in inst

C1Step ==
    (lastOp'.kind \in ImportKinds /\ lastOp'.ok) =>
        /\ lastOp'.slug \notin listSkillSlugs(skills)
        /\ lastOp'.slug \in listSkillSlugs(skills')
        /\ LeastFree(skills, lastOp'.base, lastOp'.slug)
        /\ (lastOp.ok /\ lastOp.kind = lastOp'.kind /\ lastOp.arg = lastOp'.arg) =>
              /\ lastOp'.slug # lastOp.slug
              /\ (/\ lastOp.slug = lastOp.base
                  /\ Suffixed(lastOp.base, 1) \notin listSkillSlugs(lastOp.pre))
                 => lastOp'.slug = Suffixed(lastOp.base, 1)

\* C1: a successful zip, folder, file or git import returns a slug that no installed
\* skill had when the import began: the source's slug if it was free, else that slug
\* with the least free numeric suffix counted from 1; an import repeated right after
\* a successful import of the same source returns a different slug, x-1 after x.
C1UniqueSlug == [][C1Step]_skillVars

\* the same source imported a second time got the suffix 1
C1Witness ==
    /\ lastOp.kind \in ImportKinds
    /\ lastOp.ok
    /\ lastOp.slug = Suffixed(lastOp.base, 1)
    /\ lastOp.base \in listSkillSlugs(lastOp.pre)
    /\ lastOp.pre[lastOp.base].src = skills[lastOp.slug].src

\* C5 (as claimed): when update raises after the directory was deleted, that is when
\* the re-import was reached or the catalog / source-type check failed, no skill
\* exists under the updated slug afterwards.
C5UninstalledAfterFailedUpdate ==
    (lastOp.kind = "update" /\ ~lastOp.ok /\
     lastOp.err \notin {"Skill has no source metadata", "Skill has no update source URL"})
        => ~skillExists(skills, lastOp.target)

\* C6 (as claimed): a successful update returns a skill whose provenance type and
\* url are those the skill had before.
C6ProvenancePreserved ==
    (lastOp.kind = "update" /\ lastOp.ok) =>
        /\ IsSome(lastOp.ret)
        /\ Val(lastOp.ret).type = Val(lastOp.was).type
        /\ Val(lastOp.ret).url = Val(lastOp.was).url

\* C7 (as claimed): an import that raises leaves the skills directory as it was.
C7AllOrNothing ==
    (lastOp.kind \in ImportKinds \cup {"url"} /\ ~lastOp.ok) => skills = lastOp.pre

\* C8: no scratch directory outlives the import that created it, whether the import
\* returned or raised, nested imports included.
C8NoScratchLeft == temps = {}

\* a url import that downloaded an archive, handed it to the zip importer (two
\* scratch directories) and failed there
C8Witness ==
    /\ lastOp.kind = "url"
    /\ ~lastOp.ok
    /\ lastOp.made = 2
    /\ lastOp.err = "Failed to load imported skill"
    /\ temps = {}

\* C29: update reinstalls in place: a successful update of a git or skillssh skill
\* returns a skill with the slug of the skill that was updated, also when that slug
\* carries a conflict suffix or is not the name the importer derives from the
\* download.
C29ReinstalledInPlace ==
    (lastOp.kind = "update" /\ lastOp.ok) => lastOp.slug = lastOp.target

\* the update of a skill whose slug carries a conflict suffix, while the skill that
\* has the unsuffixed slug is installed, returned the same slug
C29SuffixKept ==
    /\ lastOp.kind = "update"
    /\ lastOp.ok
    /\ lastOp.target = Suffixed(NameF, 1)
    /\ lastOp.slug = lastOp.target
    /\ skillExists(skills, NameF)

\* C30: an update that fails on a check that needs no re-import leaves the skill
\* installed and unchanged: so when the skill has no provenance, when its provenance
\* has no url, when the provenance type is neither skillssh nor git, and when a
\* skillssh skill's slug is not in the catalog.
C30FailedCheckKeepsSkill ==
    (lastOp.kind = "update" /\ ~lastOp.ok /\ lastOp.err \in PreImportErrors) =>
        /\ skillExists(skills, lastOp.target)
        /\ skills = lastOp.pre

\* the two checks made before the directory is deleted do leave the skill as it was
C30EarlyChecksKeepSkill ==
    (/\ lastOp.kind = "update"
     /\ ~lastOp.ok
     /\ lastOp.err \in {"Skill has no source metadata", "Skill has no update source URL"})
    => skills = lastOp.pre

\* the update of a skill that the url importer installed from a GitHub tree URL
UpdatedTreeImport ==
    /\ lastOp.kind = "update"
    /\ IsSome(lastOp.was)
    /\ Val(lastOp.was).type = "git"
    /\ Val(lastOp.was).url.kind = "tree"

\* C32: a skill that the url importer installed from a GitHub tree URL (provenance
\* type git, url the tree URL) can be updated: the update succeeds and installs the
\* same subdirectory again, so that the skill is installed afterwards with the
\* content it had.
C32TreeImportUpdates ==
    UpdatedTreeImport =>
        /\ lastOp.ok
        /\ skillExists(skills, lastOp.target)
        /\ skills[lastOp.target].md = lastOp.pre[lastOp.target].md


----------------------------------------------------------------------------
(* Claims about the catalog and its requests *)

Statuses(log) == [i \in DOMAIN log |-> log[i].status]

FetchDone == fetch.pc \in {"returned", "raised"}

\* C10: whatever the answers, one call of fetchWithRetry makes at most 3 retries
\* and at most 4 requests and is over once the fourth request is answered; when
\* the answers are 403, 403, 403, 200 it returns the 200 response, the answer to
\* its fourth request.
C10BoundedRetries ==
    /\ fetch.attempt <= 3
    /\ Len(fetch.log) <= 4
    /\ Len(fetch.waits) = fetch.attempt
    /\ Len(fetch.log) = 4 => FetchDone
    /\ (FetchDone /\ Statuses(fetch.log) = <<403, 403, 403, 200>>) =>
          /\ fetch.pc = "returned"
          /\ Val(fetch.result).response = fetch.log[4]
          /\ Val(fetch.result).response.status = 200

\* three rate-limited answers and then a 200
C10Witness ==
    /\ FetchDone
    /\ Statuses(fetch.log) = <<403, 403, 403, 200>>

\* C9: with forceRefresh false and a readable cache whose age is at most ttl,
\* getSkillsCatalog returns the cached catalog, makes no request and leaves the
\* cache as it is; with the cache missing, corrupt or older than ttl, or with
\* forceRefresh true, it runs fetchSkillsCatalog, which makes at least one request
\* when the url is a GitHub repository and, when it succeeds, returns the fetched
\* catalog and has written it to the cache (when it raises, the cache is as before).
C9CacheOrFetch ==
    lastGet.called =>
        LET pre == lastGet.pre
            usable == /\ pre.state = "ok"
                      /\ lastGet.at - getTime(pre.lastFetched) <= lastGet.ttl
        IN  IF ~lastGet.force /\ usable
            THEN /\ ~lastGet.fetched
                 /\ lastGet.requests = 0
                 /\ lastGet.ok
                 /\ lastGet.ret = Some(Catalog(pre.skills, pre.lastFetched))
                 /\ lastGet.post = pre
            ELSE /\ lastGet.fetched
                 /\ lastGet.urlOk => lastGet.requests >= 1
                 /\ lastGet.ok =>
                      /\ IsSome(lastGet.ret)
                      /\ Val(lastGet.ret).lastFetched = toISOString(lastGet.at)
                      /\ lastGet.post = CacheOf(Val(lastGet.ret))
                 /\ ~lastGet.ok => lastGet.post = pre

\* a cache exactly ttl old, ttl not zero, was returned without a request
C9Witness ==
    /\ lastGet.called
    /\ ~lastGet.force
    /\ lastGet.pre.state = "ok"
    /\ lastGet.ttl > 0
    /\ lastGet.at - getTime(lastGet.pre.lastFetched) = lastGet.ttl
    /\ lastGet.requests = 0
    /\ IsSome(lastGet.ret)

\* every request of the call got an answer of the class
AllAnswers(class) == \A i \in DOMAIN fetch.log : fetch.log[i].status \in class

RateLimited == {403, 429}
OtherNotOk == {404, 500}
NetworkFailure == {0}

\* the sleeps of the call are those of calculateBackoffDelay
BackoffWaits ==
    \A k \in DOMAIN fetch.waits :
        \E jitter \in Jitters : fetch.waits[k] = calculateBackoffDelay(k - 1, jitter)

\* C27 as stated: when every attempt of a request is answered with 403 or 429,
\* the fetch raises the rate-limit error once the retry ceiling is reached; when
\* every attempt is answered with another non-2xx status or fails at the network
\* level, the request is retried with backoff and, the retries exhausted, an error
\* is raised and no response is returned.
C27ErrorAfterRetries ==
    FetchDone =>
        /\ AllAnswers(RateLimited) =>
              /\ Len(fetch.log) = MAX_RETRIES + 1
              /\ fetch.pc = "raised"
              /\ Val(fetch.result).outcome = "ratelimit"
        /\ AllAnswers(OtherNotOk \cup NetworkFailure) =>
              /\ Len(fetch.log) = MAX_RETRIES + 1
              /\ BackoffWaits
              /\ fetch.pc = "raised"
              /\ Val(fetch.result).outcome = "network"

\* C27, amended: when every attempt is answered with 403 or 429, fetchWithRetry
\* raises the rate-limit error after MAX_RETRIES retries; when every attempt fails
\* at the network level, or is answered with another non-2xx status, it retries
\* MAX_RETRIES times with backoff, and then raises the error of fetch when the last
\* attempt failed at the network level, and returns the response, not ok, when the
\* last attempt was answered.
C27RaisesOrReturnsLast ==
    FetchDone =>
        /\ AllAnswers(RateLimited) =>
              /\ Len(fetch.log) = MAX_RETRIES + 1
              /\ fetch.pc = "raised"
              /\ Val(fetch.result).outcome = "ratelimit"
        /\ AllAnswers(OtherNotOk \cup NetworkFailure) =>
              /\ Len(fetch.log) = MAX_RETRIES + 1
              /\ BackoffWaits
              /\ IF IsNetworkError(fetch.log[Len(fetch.log)])
                 THEN /\ fetch.pc = "raised"
                      /\ Val(fetch.result).outcome = "network"
                 ELSE /\ fetch.pc = "returned"
                      /\ Val(fetch.result).response = fetch.log[Len(fetch.log)]
                      /\ ~ResponseOk(Val(fetch.result).response)

\* four requests, each answered with status 500: the fourth answer is returned
C27Witness ==
    /\ FetchDone
    /\ Statuses(fetch.log) = <<500, 500, 500, 500>>
    /\ fetch.pc = "returned"

\* the request gets a 2xx answer within the attempts fetchWithRetry makes, every
\* answer before it being one that is retried
Served(answers) ==
    \E k \in 1..(MAX_RETRIES + 1) :
        /\ Answer(answers, k).status \in 200..299
        /\ \A j \in 1..(k - 1) : Answer(answers, j).status \notin 200..299

\* the directories whose SKILL.md is served and has frontmatter
Healthy(dirs) == SelectSeq(dirs, LAMBDA dir : Served(dir.answers) /\ dir.frontmatter)

\* C28: in a catalog fetch whose directory listing is served, the requests for the
\* directories' SKILL.md are isolated from each other: a directory whose SKILL.md
\* is missing, has no frontmatter, or whose request raises an error loses its own
\* entry only; the fetch returns, and has written to the cache, a catalog with the
\* entry of every other directory, in the order of the listing.
C28EntriesAreIsolated ==
    (lastGet.called /\ lastGet.fetched /\ lastGet.urlOk /\ Served(lastGet.env.listing)) =>
        LET healthy == Healthy(lastGet.env.dirs)
        IN  /\ lastGet.ok
            /\ IsSome(lastGet.ret)
            /\ Val(lastGet.ret).skills =
                   [i \in DOMAIN healthy |->
                       CatalogEntry(healthy[i].name, healthy[i].version)]
            /\ lastGet.post = CacheOf(Val(lastGet.ret))
            /\ cache = lastGet.post \/ cache \in {NoCache, CorruptCache}

\* a listing of five directories: one without SKILL.md, one without frontmatter,
\* one whose request ends in the rate-limit error, and two that are served
C28Witness ==
    /\ lastGet.called
    /\ lastGet.fetched
    /\ lastGet.ok
    /\ Len(lastGet.env.dirs) = 5
    /\ Len(Val(lastGet.ret).skills) = 2
    /\ cache = CacheOf(Val(lastGet.ret))

\* the request for the directory's SKILL.md ends in an error raised by
\* fetchWithRetry: the retries exhausted on a rate limit or on a network error
Transient(dir) == fetchWithRetry(dir.answers, 0).outcome # "return"

Fetched == lastGet.called /\ lastGet.fetched

Names(entries) == {entries[i].slug : i \in DOMAIN entries}

\* C33 as stated: a catalog fetch never caches a catalog that lacks an entry because
\* of a transient failure: when a per-skill request ends with the retries exhausted
\* on a rate limit or a network error, the fetch raises and the cache file keeps its
\* previous content.
C33NoCacheAfterTransientFailure ==
    (Fetched /\ \E i \in DOMAIN lastGet.env.dirs : Transient(lastGet.env.dirs[i])) =>
        /\ ~lastGet.ok
        /\ lastGet.post = lastGet.pre

\* C33, amended: a catalog fetch raises and leaves the cache file as it was only
\* when the repository URL is rejected or the directory listing is not retrieved;
\* a fetch whose listing is retrieved returns and writes to the cache a catalog,
\* also when per-skill requests ended with the retries exhausted on a rate limit
\* or a network error: that catalog lacks the entries of those directories.
C33CachedWithoutFailedEntries ==
    Fetched =>
        IF lastGet.urlOk /\ Served(lastGet.env.listing)
        THEN /\ lastGet.ok
             /\ lastGet.post = CacheOf(Val(lastGet.ret))
             /\ \A i \in DOMAIN lastGet.env.dirs :
                    Transient(lastGet.env.dirs[i]) =>
                        lastGet.env.dirs[i].name \notin Names(lastGet.post.skills)
        ELSE /\ ~lastGet.ok
             /\ lastGet.post = lastGet.pre

\* a fetch in which the request for g ended in the rate-limit error wrote a
\* catalog over a cached catalog that had the entry of g
C33Witness ==
    /\ Fetched
    /\ lastGet.ok
    /\ \E i \in DOMAIN lastGet.env.dirs :
          /\ Transient(lastGet.env.dirs[i])
          /\ lastGet.env.dirs[i].name \in Names(lastGet.pre.skills)
          /\ lastGet.env.dirs[i].name \notin Names(lastGet.post.skills)
    /\ cache = lastGet.post

----------------------------------------------------------------------------
(* Claims about the transcript writer *)

IsPrefix(s, t) == Len(s) <= Len(t) /\ SubSeq(t, 1, Len(s)) = s

\* C2: when a session is exported and then exported again, unchanged and carrying
\* the session id the first export returned, with nothing written in between, the
\* second export appends no message line and no title line, and the messageCount of
\* the session's index entry is what it was after the first export.
C2SecondExportAddsNothing ==
    (/\ exp.pc = "idle"
     /\ lastExport.done
     /\ prevExport.done
     /\ lastExport.session =
            [prevExport.session EXCEPT !.sdkSessionId = Some(prevExport.id)])
        => /\ lastExport.id = prevExport.id
           /\ lastExport.existing
           /\ lastExport.appended = 0
           /\ ~lastExport.titled
           /\ transcripts[<<lastExport.dir, lastExport.id>>] = lastExport.before
           /\ lastExport.messageCount = prevExport.messageCount

\* a session with messages and a name was exported to a new transcript and then
\* exported again with the id it got
C2Witness ==
    /\ exp.pc = "idle"
    /\ lastExport.done
    /\ prevExport.done
    /\ ~prevExport.existing
    /\ prevExport.appended >= 2
    /\ prevExport.titled
    /\ prevExport.session.sdkSessionId = None
    /\ lastExport.session =
           [prevExport.session EXCEPT !.sdkSessionId = Some(prevExport.id)]

C3Step ==
    exp.pc = "write" =>
        \A path \in DOMAIN transcripts :
            /\ path \in DOMAIN transcripts'
            /\ IsPrefix(transcripts[path], transcripts'[path])

CarriesText(line) ==
    /\ IsMessageLine(line)
    /\ \/ line.content.kind = "string" /\ Trim(line.content.text) # <<>>
       \/ /\ line.content.kind = "blocks"
          /\ \E i \in DOMAIN line.content.blocks :
                /\ line.content.blocks[i].type = "text"
                /\ Trim(line.content.blocks[i].text) # <<>>

\* C4: when exportSession has returned, the index of the transcript's directory
\* holds one entry for the session id; its messageCount is the number of user and
\* assistant lines of the transcript file that carry text, and, when the file has a
\* user or assistant line, its created and modified timestamps are those of the
\* first and of the last such line.
C4IndexDescribesTranscript ==
    (exp.pc = "idle" /\ lastExport.done) =>
        LET path == TranscriptPath(lastExport.dir, lastExport.id)
            file == transcripts[path]
            messageLines == SelectSeq(file, IsMessageLine)
            mine == SelectSeq(ReadIndex(indexes, lastExport.dir),
                              LAMBDA e : e.sessionId = lastExport.id)
        IN  /\ path \in DOMAIN transcripts
            /\ Len(mine) = 1
            /\ mine[1].messageCount =
                   Cardinality({i \in DOMAIN file : CarriesText(file[i])})
            /\ messageLines # <<>> =>
                  /\ mine[1].created = Val(messageLines[1].timestamp)
                  /\ mine[1].modified = Val(messageLines[Len(messageLines)].timestamp)

\* an export into a transcript that the CLI had written to, holding a line without
\* text, so that the count is less than the number of message lines
C4Witness ==
    /\ exp.pc = "idle"
    /\ lastExport.done
    /\ lastExport.existing
    /\ lastExport.appended > 0
    /\ \E i \in DOMAIN lastExport.before : lastExport.before[i].type = "user"
    /\ lastExport.messageCount > 0
    /\ lastExport.messageCount <
           Len(SelectSeq(transcripts[TranscriptPath(lastExport.dir, lastExport.id)],
                         IsMessageLine))

\* the lines the last export appended to the transcript it found
AppendedLines ==
    LET file == transcripts[TranscriptPath(lastExport.dir, lastExport.id)]
    IN  SubSeq(file, Len(lastExport.before) + 1, Len(file))

\* the message lines the transcript held before the last export
MessagesBefore == SelectSeq(lastExport.before, IsMessageLine)

\* C20: when exportSession finds a transcript, the first message line it appends has
\* as parentUuid the uuid of the last user or assistant line the file already held,
\* whatever the session's messages and the file's lines are, and also when the
\* file's last message is not a message of the session.
C20FirstAppendedLinksToLast ==
    (/\ lastExport.done
     /\ lastExport.existing
     /\ lastExport.appended > 0
     /\ MessagesBefore # <<>>)
    => SelectSeq(AppendedLines, IsMessageLine)[1].parentUuid =
          MessagesBefore[Len(MessagesBefore)].uuid


\* the transcript file of the last export
ExportedFile == transcripts[TranscriptPath(lastExport.dir, lastExport.id)]

\* the user and assistant messages of the session of the last export, in order
ExportedMessages ==
    SelectSeq(lastExport.session.messages, LAMBDA m : m.type \in {"user", "assistant"})

\* C21: when exportSession finds no transcript for the session id, the message
\* lines of the file it writes are the session's user and assistant messages in
\* session order, the first with parentUuid null and every later one with the uuid
\* of the message line right before it as parentUuid; the other messages of the
\* session are left out; and at most one file-history-snapshot line is written,
\* before every message line.
C21NewTranscriptIsAChain ==
    (exp.pc = "idle" /\ lastExport.done /\ ~lastExport.existing) =>
        LET file == ExportedFile
            msgs == SelectSeq(file, IsMessageLine)
            snaps == {i \in DOMAIN file : file[i].type = "file-history-snapshot"}
        IN  /\ Len(msgs) = Len(ExportedMessages)
            /\ \A i \in DOMAIN msgs :
                  /\ msgs[i].uuid = Some(ExportedMessages[i].id)
                  /\ msgs[i].parentUuid = IF i = 1 THEN None ELSE msgs[i - 1].uuid
            /\ Cardinality(snaps) <= 1
            /\ \A i \in snaps : \A j \in DOMAIN file : IsMessageLine(file[j]) => i < j
            /\ \A i \in DOMAIN file :
                  file[i].type \in {"file-history-snapshot", "user", "assistant",
                                    "custom-title"}

\* a session with a tool message between its user and assistant messages was
\* exported to a new transcript of three message lines
C21Witness ==
    /\ exp.pc = "idle"
    /\ lastExport.done
    /\ ~lastExport.existing
    /\ lastExport.session.messages = <<MsgUser, MsgTool, MsgThinking, MsgMixed>>
    /\ Len(SelectSeq(ExportedFile, IsMessageLine)) = 3
    /\ ExportedFile[1].type = "file-history-snapshot"

\* C22: after any sequence of exportSession calls, one after the other, for
\* sessions whose message ids are distinct, no two user or assistant lines of a
\* transcript file carry the same uuid: a session message whose id the file
\* already holds as a uuid is not appended again.
C22NoUuidTwice ==
    \A path \in DOMAIN transcripts :
        LET msgs == SelectSeq(transcripts[path], IsMessageLine)
        IN  \A i, j \in DOMAIN msgs : msgs[i].uuid = msgs[j].uuid => i = j

\* an export found a transcript that held a message of the session, and appended
\* the messages the file did not hold
C22Witness ==
    /\ exp.pc = "idle"
    /\ lastExport.done
    /\ lastExport.existing
    /\ lastExport.appended > 0
    /\ lastExport.appended < Len(ExportedMessages)
    /\ \E i \in DOMAIN ExportedMessages :
          ExportedMessages[i].id \in collectExistingUuids(lastExport.before)

\* the custom-title lines among a sequence of lines
TitleLines(lines) == SelectSeq(lines, LAMBDA line : line.type = "custom-title")

\* C23: when exportSession finds a transcript, it appends one custom-title line,
\* carrying the trimmed name, when the session's name is not blank and its trimmed
\* form is not the customTitle of the last custom-title line the file held (or the
\* file held none); with a blank name, no name, or the name the file's last title
\* line carries, it appends no title line.
C23TitleAppendedWhenChanged ==
    (exp.pc = "idle" /\ lastExport.done /\ lastExport.existing) =>
        LET name == lastExport.session.name
            named == IsSome(name) /\ Trim(Val(name)) # <<>>
            held == TitleLines(lastExport.before)
            changed == held = <<>> \/ held[Len(held)].customTitle # Some(Trim(Val(name)))
            added == TitleLines(AppendedLines)
        IN  IF named /\ changed
            THEN /\ Len(added) = 1
                 /\ added[1].customTitle = Some(Trim(Val(name)))
            ELSE added = <<>>

\* the file held two title lines, the first of them the session's name, and the
\* export appended the name again because the last one differed
C23Witness ==
    /\ exp.pc = "idle"
    /\ lastExport.done
    /\ lastExport.existing
    /\ Len(TitleLines(lastExport.before)) = 2
    /\ TitleLines(lastExport.before)[1].customTitle = normalizeCustomTitle(lastExport.session.name)
    /\ Len(TitleLines(AppendedLines)) = 1

C24Step ==
    /\ (exp.pc = "idle" /\ exp'.pc # "idle") =>
          /\ exp'.pc = "write"
          /\ exp'.existing <=> \E path \in DOMAIN transcripts : path[2] = exp'.id
          /\ UNCHANGED <<transcripts, history, indexes>>
    /\ exp.pc = "write" =>
          /\ transcripts'[exp.path] =
                 (IF exp.existing THEN transcripts[exp.path] ELSE <<>>)
                 \o exp.newLines \o exp.metadataLines
          /\ exp'.pc = IF exp.existing THEN "index" ELSE "history"
          /\ UNCHANGED <<history, indexes>>
    /\ exp.pc = "history" =>
          /\ ~exp.existing
          /\ Len(history') = Len(history) + 1
          /\ IsPrefix(history, history')
          /\ history'[Len(history')].sessionId = exp.id
          /\ exp'.pc = "index"
          /\ UNCHANGED <<transcripts, indexes>>
    /\ exp.pc = "index" =>
          /\ exp.path[1] \in DOMAIN indexes'
          /\ exp'.pc = "idle"
          /\ UNCHANGED <<transcripts, history>>

\* C24: a call of exportSession takes one of two step sequences.  When no
\* transcript exists it writes the whole transcript, then appends one entry to the
\* history log, then writes the index; when a transcript exists it appends the new
\* lines (with the title line, if the title changed), then writes the index, and
\* leaves the history log alone.  The index is the last file the call writes.
C24TwoStepSequences == [][C24Step]_vars

\* a session was exported to a new transcript and then into the transcript it
\* had: two exports, one entry in the history log
C24Witness ==
    /\ exp.pc = "idle"
    /\ lastExport.done
    /\ lastExport.existing
    /\ prevExport.done
    /\ ~prevExport.existing
    /\ lastExport.appended > 0
    /\ Len(history) = 1
    /\ history[1].sessionId = prevExport.id

\* the index entries for the transcript the crashed export wrote
CrashedEntries ==
    SelectSeq(ReadIndex(indexes, prevExport.path[1]),
              LAMBDA e : e.sessionId = prevExport.id)

\* the index describes the transcript the crashed export wrote
Repaired ==
    LET file == transcripts[prevExport.path]
    IN  /\ Len(CrashedEntries) = 1
        /\ CrashedEntries[1].fullPath = prevExport.path
        /\ CrashedEntries[1].messageCount =
               Cardinality({i \in DOMAIN file : CarriesText(file[i])})

\* an export of a session was cut short after the transcript write, and the next
\* export, of the same session as the caller holds it, has returned
ExportedAfterCrash ==
    /\ exp.pc = "idle"
    /\ lastExport.done
    /\ prevExport.crashed
    /\ lastExport.session = prevExport.session

\* C25: when exportSession is cut short after it wrote or appended the transcript
\* and before it wrote the index, the next export of the same session repairs the
\* index: when it has returned, the index holds one entry for the transcript the
\* crashed export wrote, with the message count of that transcript.  This for any
\* session, with or without an sdkSessionId before the crashed export.
C25NextExportRepairsIndex == ExportedAfterCrash => Repaired

\* the same for the sessions that carried an sdkSessionId before the crashed export
C25RepairedWhenIdKnown ==
    (ExportedAfterCrash /\ IsSome(prevExport.session.sdkSessionId)) => Repaired

\* a crashed first export of a session with an sdkSessionId, then an export of it
C25IdKnownCase ==
    /\ ExportedAfterCrash
    /\ IsSome(prevExport.session.sdkSessionId)
    /\ ~prevExport.existing
    /\ lastExport.existing

\* every index holds a session id once, newest modified time first
C26Indexed ==
    \A dir \in DOMAIN indexes :
        LET entries == indexes[dir]
        IN  /\ \A i, j \in DOMAIN entries :
                  entries[i].sessionId = entries[j].sessionId => i = j
            /\ \A i, j \in DOMAIN entries :
                  i < j => getTime(entries[i].modified) >= getTime(entries[j].modified)

\* a step keeps the index entries of the sessions it does not export
C26Step ==
    \A dir \in DOMAIN indexes :
        /\ dir \in DOMAIN indexes'
        /\ \A i \in DOMAIN indexes[dir] :
              (exp.pc = "index" /\ indexes[dir][i].sessionId = exp.id)
              \/ \E j \in DOMAIN indexes'[dir] : indexes'[dir][j] = indexes[dir][i]

\* C26: after any sequence of exports into a project directory, the sessions index
\* of the directory holds at most one entry for a session id, its entries are in
\* descending order of their modified time, and an export keeps the entries of the
\* other sessions.
C26IndexUpserts == []C26Indexed /\ [][C26Step]_vars

\* the second session exported into a directory is the newer one: its entry was
\* pushed last and is now first, before the entry of the first session
C26Witness ==
    /\ exp.pc = "idle"
    /\ lastExport.done
    /\ prevExport.done
    /\ lastExport.dir = prevExport.dir
    /\ Len(indexes[lastExport.dir]) = 2
    /\ indexes[lastExport.dir][1].sessionId = lastExport.id
    /\ indexes[lastExport.dir][2].sessionId = prevExport.id
    /\ getTime(indexes[lastExport.dir][1].modified)
           > getTime(indexes[lastExport.dir][2].modified)

\* the parent link of line i of the file is null or is the uuid of a user or
\* assistant line at an earlier place of the file
LinkedBack(file, i) ==
    \/ file[i].parentUuid = None
    \/ \E j \in 1..(i - 1) :
          /\ IsMessageLine(file[j])
          /\ file[j].uuid = file[i].parentUuid

\* C35: after any sequence of exports, every user or assistant line of a transcript
\* file has a parentUuid that is null or the uuid of a user or assistant line that
\* occurs earlier in the same file: no parent link dangles or points forward.
C35ParentLinksPointBack ==
    \A path \in DOMAIN transcripts :
        \A i \in DOMAIN transcripts[path] :
            IsMessageLine(transcripts[path][i]) => LinkedBack(transcripts[path], i)

\* an export found a transcript and appended a message line whose parent is a line
\* the file held before the export
C35Witness ==
    /\ exp.pc = "idle"
    /\ lastExport.done
    /\ lastExport.existing
    /\ lastExport.appended > 0
    /\ LET file == ExportedFile
       IN  \E i \in (Len(lastExport.before) + 1)..Len(file) :
              /\ IsMessageLine(file[i])
              /\ \E j \in 1..Len(lastExport.before) :
                    /\ IsMessageLine(file[j])
                    /\ file[j].uuid = file[i].parentUuid

\* C36: after any completed exportSession, also one that took the existing-transcript
\* path and one that follows an export interrupted before its history update, the
\* history log has an entry with the session id the export returned.
C36ExportedIsInHistory ==
    (exp.pc = "idle" /\ lastExport.done) =>
        \E i \in DOMAIN history : history[i].sessionId = lastExport.id

----------------------------------------------------------------------------
(* Claims about the update checks and the storage *)

\* what the check is to answer for a skill, a catalog and an answer of ls-remote
HasUpdate(skill, catalog, env) ==
    /\ IsSome(skill.source)
    /\ \/ /\ Val(skill.source).type = "skillssh"
          /\ IsSome(catalog)
          /\ \E i \in 1..Len(Val(catalog)) :
                /\ Val(catalog)[i].slug = skill.slug
                /\ Val(catalog)[i].version # Val(skill.source).version
       \/ /\ Val(skill.source).type = "git"
          /\ Val(skill.source).url # NoUrl
          /\ IsSome(env.remote)
          /\ Val(env.remote).short # 0
          /\ Val(env.remote).short # Val(skill.source).version

\* C11: checkSkillUpdate never raises.  For a skillssh skill it returns true exactly
\* when a catalog is given that has an entry with the skill's slug whose version
\* differs from the stored version; for a git skill, exactly when the 7-character
\* hash of the remote HEAD is obtained and differs from the stored version; for any
\* other provenance, and for none, it returns false.
C11CheckAnswers ==
    lastOp.kind = "check" =>
        /\ ~lastOp.ret.raised
        /\ lastOp.ret.value = HasUpdate(lastOp.skill, lastOp.catalog, lastOp.env)

\* a git skill whose remote HEAD has moved is reported
C11Witness ==
    /\ lastOp.kind = "check"
    /\ IsSome(lastOp.skill.source)
    /\ Val(lastOp.skill.source).type = "git"
    /\ lastOp.ret.value

\* the skills of the running checkAllSkillUpdates whose check has finished
Checked == checkAll.skills \ checkAll.pending

\* C12: checkAllSkillUpdates runs the checks of its skills concurrently.  In whatever
\* order they finish, the map holds exactly the slugs of the skills checked so far,
\* each with the value checkSkillUpdate gives for that skill alone; a check whose
\* command fails puts false at its own slug and changes no other entry; the map
\* returned has exactly the slugs of the skills given.
C12EachCheckAlone ==
    /\ DOMAIN checkAll.updates = {skill.slug : skill \in Checked}
    /\ \A skill \in Checked :
          /\ checkAll.updates[skill.slug] =
                checkSkillUpdate(skill, checkAll.catalog, checkAll.answers[skill.slug]).value
          /\ (IsSome(skill.source) /\ Val(skill.source).type = "git"
              /\ ~IsSome(checkAll.answers[skill.slug].remote))
             => ~checkAll.updates[skill.slug]
    /\ IsSome(checkAll.result) =>
          /\ Val(checkAll.result) = checkAll.updates
          /\ DOMAIN Val(checkAll.result) = {skill.slug : skill \in checkAll.skills}

\* a map was returned in which a skill has an update while the check of another
\* skill failed
C12Witness ==
    /\ IsSome(checkAll.result)
    /\ \E failed \in checkAll.skills : \E other \in checkAll.skills :
          /\ IsSome(failed.source)
          /\ Val(failed.source).type = "git"
          /\ Val(failed.source).url # NoUrl
          /\ ~IsSome(checkAll.answers[failed.slug].remote)
          /\ Val(checkAll.result)[other.slug]

\* the last operation was an edit of an existing skill with a name and a description
Edited ==
    /\ lastOp.kind = "edit"
    /\ lastOp.slug \in DOMAIN lastOp.pre
    /\ IsSome(lastOp.pre[lastOp.slug].md)
    /\ lastOp.metadata.name # <<>>
    /\ lastOp.metadata.description # <<>>

\* C13: after updateSkill of the storage has succeeded on an existing skill, with a
\* name and a description given, loadSkill returns the edited name, description,
\* globs, alwaysAllow and content, and a source whose modified is true.
C13EditRoundTrips ==
    Edited =>
        LET loaded == loadSkill(skills, lastOp.slug)
        IN  /\ IsSome(loaded)
            /\ Val(loaded).body.metadata.name = lastOp.metadata.name
            /\ Val(loaded).body.metadata.description = lastOp.metadata.description
            /\ Val(loaded).body.metadata.globs = lastOp.metadata.globs
            /\ Val(loaded).body.metadata.alwaysAllow = lastOp.metadata.alwaysAllow
            /\ Val(loaded).body.content = lastOp.content
            /\ IsSome(Val(loaded).source)
            /\ Val(Val(loaded).source).modified

C15RejectedEditWritesNothing ==
    lastOp.kind = "edit" =>
        /\ (/\ skillExists(lastOp.pre, lastOp.slug)
            /\ (lastOp.metadata.name = <<>> \/ lastOp.metadata.description = <<>>))
           => /\ lastOp.raised = "Name and description are required"
              /\ skills = lastOp.pre
        /\ ~skillExists(lastOp.pre, lastOp.slug)
           => /\ lastOp.raised = ""
              /\ lastOp.ret = None
              /\ skills = lastOp.pre

\* an edit without a description was rejected for a skill that has a sidecar
C15Witness ==
    /\ lastOp.kind = "edit"
    /\ lastOp.raised # ""
    /\ lastOp.metadata.name # <<>>
    /\ IsSome(lastOp.pre[lastOp.slug].src)

\* C16: an edit changes provenance only by setting modified to true.  When the
\* sidecar exists and parses, the sidecar after the edit has the type, url, version
\* and installedAt it had; when it is absent or does not parse, the edit creates a
\* sidecar of type local with modified true.
C16EditOnlyMarksModified ==
    Edited =>
        LET before == lastOp.pre[lastOp.slug].src
            after == skills[lastOp.slug].src
        IN  /\ IsSome(after)
            /\ Val(after).modified
            /\ IF IsSome(before) /\ Val(before) # UnparsableJson
               THEN /\ Val(after).type = Val(before).type
                    /\ Val(after).url = Val(before).url
                    /\ Val(after).version = Val(before).version
                    /\ Val(after).installedAt = Val(before).installedAt
                    /\ Val(after) = [Val(before) EXCEPT !.modified = TRUE]
               ELSE Val(after).type = "local"

\* a skill installed from git was edited
C16Witness ==
    /\ Edited
    /\ IsSome(lastOp.pre[lastOp.slug].src)
    /\ lastOp.pre[lastOp.slug].src # Some(UnparsableJson)
    /\ Val(lastOp.pre[lastOp.slug].src).type = "git"
    /\ Val(lastOp.pre[lastOp.slug].src).installedAt # toISOString(lastOp.t)

\* skills/<slug>/SKILL.md is there, parses, and has a name and a description
Loadable(sk, slug) ==
    /\ slug \in DOMAIN sk
    /\ IsSome(sk[slug].md)
    /\ Val(sk[slug].md).yaml
    /\ Val(sk[slug].md).body.metadata.name # <<>>
    /\ Val(sk[slug].md).body.metadata.description # <<>>

\* C17: loading fails soft.  loadSkill returns nothing, and does not raise, when the
\* directory or SKILL.md is missing, the frontmatter does not parse, or the name or
\* the description is absent; a sidecar that does not parse makes the skill load
\* without a source; loadWorkspaceSkills returns exactly the skills loadSkill loads.
C17LoadFailsSoft ==
    /\ lastOp.kind = "load" =>
          /\ ~Loadable(lastOp.pre, lastOp.slug) => lastOp.ret = None
          /\ (/\ Loadable(lastOp.pre, lastOp.slug)
              /\ lastOp.pre[lastOp.slug].src = Some(UnparsableJson))
             => /\ IsSome(lastOp.ret)
                /\ Val(lastOp.ret).source = None
    /\ lastOp.kind = "loadAll" =>
          /\ {skill.slug : skill \in lastOp.ret} =
                {slug \in DOMAIN lastOp.pre : Loadable(lastOp.pre, slug)}
          /\ \A skill \in lastOp.ret :
                /\ Some(skill) = loadSkill(lastOp.pre, skill.slug)
                /\ lastOp.pre[skill.slug].src = Some(UnparsableJson) => skill.source = None

\* of two directories one did not load, and the other loaded without a source
\* because its sidecar does not parse
C17Witness ==
    /\ lastOp.kind = "loadAll"
    /\ Cardinality(lastOp.ret) < Cardinality(DOMAIN lastOp.pre)
    /\ \E skill \in lastOp.ret :
          /\ lastOp.pre[skill.slug].src = Some(UnparsableJson)
          /\ skill.source = None

\* a check of the skill a git import has just installed, the remote being as it was
\* when the import cloned it
CheckedRightAfterImport ==
    /\ lastOp.kind = "check"
    /\ lastOp.after.kind = "git"
    /\ lastOp.after.ok
    /\ lastOp.skill.slug = lastOp.after.slug
    /\ lastOp.remote = lastOp.after.arg[3]

\* C31: right after a successful git import, the remote repository unchanged, the
\* update check of the imported skill answers false, for an import with a branch
\* argument as for one without: the version the import stored and the version the
\* check compares name the same remote ref.
C31NoUpdateRightAfterImport ==
    CheckedRightAfterImport => ~lastOp.ret.value

\* the same for the imports without a branch argument
C31NoUpdateWithoutBranch ==
    (CheckedRightAfterImport /\ lastOp.after.arg[2] = None) => ~lastOp.ret.value

\* an import of the branch dev, and the check right after it
C31BranchCase ==
    /\ CheckedRightAfterImport
    /\ IsSome(lastOp.after.arg[2])
    /\ lastOp.remote.dev # lastOp.remote.head

----------------------------------------------------------------------------
(* Claims about the session reader *)

\* the timestamps the log read by the last listSessions has for a session id
TimesOf(id) ==
    {listed.log[i].timestamp : i \in {j \in DOMAIN listed.log : listed.log[j].sessionId = id}}

----------------------------------------------------------------------------
(* Claims about overlapping imports *)

\* call i has passed the slug existence check
Resolved(i) == running[i].slug # <<>>

\* C19 (as the code has it): two imports that run concurrently in one process never
\* hold the same slug.  The existence check and the write of SKILL.md run without an
\* await between them, so no call is between its check and its write while another
\* call runs, and the call that checks second finds the first one's SKILL.md and
\* takes the next suffix.
C19NoSlugIsShared ==
    \A i \in Tasks : \A j \in Tasks \ {i} :
        /\ ~(running[i].pc = "resolved" /\ running[j].pc = "resolved")
        /\ (Resolved(i) /\ Resolved(j)) => running[i].slug # running[j].slug

\* two imports of one repository overlapped, and both have written their directory
C19Witness ==
    \E i \in Tasks : \E j \in Tasks \ {i} :
        /\ running[i].url = running[j].url
        /\ running[i].pc = "revparse"
        /\ running[j].pc = "revparse"
        /\ running[j].overlap
        /\ running[j].slug = Suffixed(running[i].slug, 1)

\* C19 (as stated): two imports of the same source that run concurrently pass the
\* existence check for the same slug and write into the same skill directory.
C19SameSourceSharesDirectory ==
    \A i \in Tasks : \A j \in Tasks \ {i} :
        (/\ running[i].url = running[j].url
         /\ Resolved(i)
         /\ Resolved(j)
         /\ running[j].overlap)
        => running[i].slug = running[j].slug

----------------------------------------------------------------------------
(* Claims about concurrent exports and the session watcher *)

\* the transcript file of the session the two calls export
PairFile == transcripts[Val(findTranscriptFile(transcripts, pair.id))]

\* C34: the dedup guarantee holds under interleaving: when two exportSession calls
\* for the same session, with the same external session id, run at the same time
\* and interleave at their await points, the transcript file holds every message
\* uuid on at most one line afterwards, and the history log has gained at most one
\* entry for that session id.
C34DedupUnderInterleaving ==
    BothDone =>
        /\ LET msgs == SelectSeq(PairFile, IsMessageLine)
           IN  \A i, j \in DOMAIN msgs : msgs[i].uuid = msgs[j].uuid => i = j
        /\ Len(HistoryOf(history, pair.id)) <= pair.historyBefore + 1

(* The watcher's log: wlog.notes holds the calls of emitDebounced in order, each
   with its session id, its time and the number of stops before it; the timer a
   call sets has the call's number as handle, and the event the timer delivers
   carries that number as note. *)

Answered(k) == \E i \in DOMAIN wlog.events : wlog.events[i].note = k

Superseded(k) ==
    \E k2 \in DOMAIN wlog.notes :
        k2 > k /\ wlog.notes[k2].sessionId = wlog.notes[k].sessionId

TimerPending(k) == \E tm \in timerq : tm.handle = k

Cancelled(k) == wlog.notes[k].stops < wlog.stops

\* at most one timer is set for a session id
OneTimerPerSession ==
    \A sessionId \in WatchedSessions :
        Cardinality({tm \in timerq : tm.sessionId = sessionId}) <= 1

\* an event is delivered once, for the session of the notification that set its
\* timer, 500 ms or more after that notification and before any later notification
\* for the session, to every registered callback, the ones after a callback that
\* raises included
DeliveredAfterBurst ==
    \A i \in DOMAIN wlog.events :
        LET e == wlog.events[i]
            n == wlog.notes[e.note]
        IN  /\ n.sessionId = e.sessionId
            /\ e.at >= n.at + Debounce
            /\ \A k \in DOMAIN wlog.notes :
                  (k > e.note /\ wlog.notes[k].sessionId = e.sessionId)
                      => wlog.notes[k].at >= e.at
            /\ e.to = e.registered
            /\ \A j \in DOMAIN wlog.events : wlog.events[j].note = e.note => i = j

\* a notification that is followed within 500 ms by another for the same session
\* delivers nothing; the last notification of a burst has delivered its event, or
\* its timer is set, or stop() came after it
OneEventPerBurst ==
    \A k \in DOMAIN wlog.notes :
        /\ (\E k2 \in DOMAIN wlog.notes :
               /\ k2 > k
               /\ wlog.notes[k2].sessionId = wlog.notes[k].sessionId
               /\ wlog.notes[k2].at - wlog.notes[k].at < Debounce
               /\ wlog.notes[k2].stops = wlog.notes[k].stops)
           => ~Answered(k)
        /\ Answered(k) \/ Superseded(k) \/ TimerPending(k) \/ Cancelled(k)

\* C37: the session watcher coalesces bursts: at every moment at most one debounce
\* timer is pending for a session id; a burst of change notifications for one
\* session id, each less than 500 ms after the one before, makes exactly one event
\* reach every registered callback, after the last notification of the burst; and a
\* callback that raises does not keep the event from the other callbacks.
C37BurstsAreCoalesced ==
    /\ OneTimerPerSession
    /\ DeliveredAfterBurst
    /\ OneEventPerBurst

\* two notifications for session a, 250 ms apart, were answered by one event, which
\* reached the callback that raises and then the other callback
C37Witness ==
    /\ Len(wlog.notes) = 2
    /\ wlog.notes[1].sessionId = SessionA
    /\ wlog.notes[2].sessionId = SessionA
    /\ wlog.notes[2].at = wlog.notes[1].at + 1
    /\ Len(wlog.events) = 1
    /\ wlog.events[1].note = 2
    /\ wlog.events[1].to = <<CbRaises, CbKeeps>>
    /\ timerq = {}

\* no event is delivered for a notification that stop() came after
NoEventAcrossStop ==
    \A i \in DOMAIN wlog.events :
        wlog.notes[wlog.events[i].note].stops = wlog.events[i].stops

PendingFor(sessionId) == \E tm \in timerq : tm.sessionId = sessionId

\* the last notification for the session was followed by stop(), or its event has
\* been delivered to every callback that was registered
Settled(sessionId) ==
    \E k \in DOMAIN wlog.notes :
        /\ wlog.notes[k].sessionId = sessionId
        /\ ~Superseded(k)
        /\ \/ Cancelled(k)
           \/ \E i \in DOMAIN wlog.events :
                 /\ wlog.events[i].note = k
                 /\ \A c \in DOMAIN wlog.events[i].registered :
                       \E d \in DOMAIN wlog.events[i].to :
                           wlog.events[i].to[d] = wlog.events[i].registered[c]

\* C38: watcher liveness: when a change notification for a session id is received
\* while the watcher runs, and afterwards the watcher is not stopped and the
\* notifications for that id cease, every registered callback is eventually called
\* with an event for that id; and after stop() no event is delivered for a
\* notification received before the stop.
C38EventuallyDelivered ==
    /\ []NoEventAcrossStop
    /\ \A sessionId \in WatchedSessions : PendingFor(sessionId) ~> Settled(sessionId)

\* a notification for session a was answered by an event that reached two
\* callbacks, and stop() cancelled a later notification for session b
C38Witness ==
    /\ Len(wlog.notes) = 2
    /\ wlog.notes[1].sessionId = SessionA
    /\ wlog.notes[2].sessionId = SessionB
    /\ Answered(1)
    /\ Len(wlog.events[1].to) = 2
    /\ Cancelled(2)
    /\ ~Answered(2)
    /\ timerq = {}

\* C39: across any sequence of change notifications for the history file after
\* start(), every entry appended to the history log is read by exactly one pass of
\* onHistoryChange, none skipped and none read twice, and the offset the watcher
\* remembers never exceeds the size of the file; also when an entry is written in
\* more than one chunk, and when the file shrinks and grows again.
C39EveryEntryReadOnce ==
    /\ Watching => watch.lastHistorySize <= Len(hfile.bytes)
    /\ (Watching /\ ~hfile.changed /\ hfile.rest = <<>>) => wlog.read = wlog.appended
====
